---- MODULE Spec2Model ----
(***************************************************************************)
(* Model of the Btune tuner (btune.c, stored as src/src/CMakeLists.txt     *)
(* from line 49 on): btune_init, btune_next_cparams, btune_update and the  *)
(* helpers they call.  One behaviour is one pipeline context: the caller   *)
(* alternates next_cparams and update, one pair per chunk.                  *)
(*                                                                         *)
(* Real numbers (tradeoff, score, cratio and the coefficients that         *)
(* has_improved compares) are exact rationals [num, den] with den > 0.     *)
(* Times are whole seconds, sizes are bytes.                               *)
(***************************************************************************)
EXTENDS Integers, Sequences, FiniteSets

VARIABLES
    user,        \* the btune_config the caller handed to btune_init
    environ,     \* the environment variables btune_init reads
    btune,       \* the btune_struct (config copy, lists, counters, best, aux_cparams)
    cctx,        \* the compression context fields the tuner reads and writes
    dctx,        \* the decompression context, or NoDctx
    phase,       \* "next": next_cparams is due, "update": update is due, "freed": the
                 \* tuner of the context was freed
    winner,      \* winner label computed by the last update ("W", "-", "S"), "" before
    best_before, \* best as it was when the last next_cparams was entered
    predicted,   \* whether the last next_cparams applied a model prediction (error == 0)
    best_init,   \* best as btune_init left it
    all_special, \* whether every chunk seen by update so far was a special chunk
    registrations, \* blosc2_register_codec calls made with the entropy probe codec so far
    trace_lines, \* rows of the trace table the last update printed
    dfailed,     \* whether the decompression run by the last update failed
    probe        \* the entropy probe: the locals of a get_cratio call, or IdleProbe

vars ==
    <<user, environ, btune, cctx, dctx, phase, winner, best_before, predicted,
      best_init, all_special, registrations, trace_lines, dfailed, probe>>

----------------------------------------------------------------------------
(* Bounds of the model *)

\* largest nwaits_before_readapt / nsofts_before_hard / nhards_before_stop a caller configures
MaxBehaviour == 1
\* cap on the counters nhards, nsofts and nwaitings (they grow without limit when repeating)
MaxCount == 4
\* threads of a large pool: more than the MAX_STATE_THREADS proposals one THREADS phase counts
LargePool == 52
\* btune_init calls followed in one process
MaxInits == 3
\* largest use_inference of the runs with model files
MaxInference == 3

----------------------------------------------------------------------------
(* Program constants *)

MIN_THREADS == 1
SOFT_STEP_SIZE == 1
HARD_STEP_SIZE == 2
MAX_STATE_THREADS == 50
BTUNE_KB == 1024
\* blosc2.h: BLOSC2_MAX_OVERHEAD, the header size used by the special-chunk test
BLOSC2_MAX_OVERHEAD == 32
\* score and times of cparams_btune_default
DefaultMeasure == 100

\* a NULL dctx pointer
NoDctx == [nthreads |-> 0, new_nthreads |-> 0]

\* rationals
Rat(n, d) == [num |-> n, den |-> d]
RatLt(a, b) == a.num * b.den < b.num * a.den
RatLeq(a, b) == a.num * b.den <= b.num * a.den
\* a / b for positive rationals
RatDiv(a, b) == [num |-> a.num * b.den, den |-> a.den * b.num]

\* C integer division of two int literals, as in the guards "1/3" and "2/3"
IntDiv(a, b) == a \div b

PerfModes == {"COMP", "DECOMP", "BALANCED"}
RepeatModes == {"REPEAT_ALL", "REPEAT_SOFT", "STOP"}

cparams_btune_default ==
    [compcode |-> "LZ4", filter |-> "SHUFFLE", splitmode |-> "ALWAYS_SPLIT",
     clevel |-> 9, blocksize |-> 0, shufflesize |-> 0,
     nthreads_comp |-> 0, nthreads_decomp |-> 0,
     increasing_clevel |-> FALSE, increasing_block |-> TRUE,
     increasing_shuffle |-> TRUE, increasing_nthreads |-> TRUE,
     score |-> Rat(DefaultMeasure, 1), cratio |-> Rat(1, 1),
     ctime |-> DefaultMeasure, dtime |-> DefaultMeasure]

\* the eight parameters of a tuple (what cparams_equals compares)
Params(cp) ==
    <<cp.compcode, cp.filter, cp.splitmode, cp.clevel, cp.blocksize,
      cp.shufflesize, cp.nthreads_comp, cp.nthreads_decomp>>

\* the four measurements of a tuple
Measures(cp) == <<cp.score, cp.cratio, cp.ctime, cp.dtime>>

\* the four direction flags of a tuple
Flags(cp) ==
    <<cp.increasing_clevel, cp.increasing_block, cp.increasing_shuffle,
      cp.increasing_nthreads>>

----------------------------------------------------------------------------
(* Helpers of btune.c *)

\* codecs[i]: the struct comes from calloc, so a slot that was never written holds 0,
\* which is BLOSC_BLOSCLZ
CodecAt(b, i) == IF i < Len(b.codecs) THEN b.codecs[i + 1] ELSE "BLOSCLZ"

add_codec(b, compcode) ==
    IF \E i \in 1..Len(b.codecs) : b.codecs[i] = compcode
    THEN b
    ELSE [b EXCEPT !.codecs = Append(@, compcode)]

add_filter(b, filter) ==
    IF \E i \in 1..Len(b.filters) : b.filters[i] = filter
    THEN b
    ELSE [b EXCEPT !.filters = Append(@, filter)]

\* 0.666666 <= tradeoff
HcrTradeoff(t) == 666666 * t.den <= 1000000 * t.num
\* 0.333333 <= tradeoff
BalancedTradeoff(t) == 333333 * t.den <= 1000000 * t.num

\* btune_init_codecs adding LZ4HC only below the BALANCED band
btune_init_codecs_Lz4hcInLowOnly(b, all_codecs) ==
    IF HcrTradeoff(b.config.tradeoff)
    THEN LET b1 == IF "zstd" \in all_codecs THEN add_codec(b, "ZSTD") ELSE b
         IN  IF "zlib" \in all_codecs THEN add_codec(b1, "ZLIB") ELSE b1
    ELSE LET b1 == add_codec(b, "LZ4")
         IN  IF BalancedTradeoff(b.config.tradeoff)
             THEN add_codec(b1, "BLOSCLZ")
             ELSE IF b.config.perf_mode = "DECOMP" THEN add_codec(b1, "LZ4HC") ELSE b1

\* all_codecs: the names blosc2_list_compressors() returns for the build of the library
btune_init_codecs(b, all_codecs) ==
    IF HcrTradeoff(b.config.tradeoff)
    THEN LET b1 == IF "zstd" \in all_codecs THEN add_codec(b, "ZSTD") ELSE b
         IN  IF "zlib" \in all_codecs THEN add_codec(b1, "ZLIB") ELSE b1
    ELSE LET b1 == add_codec(b, "LZ4")
             b2 == IF BalancedTradeoff(b.config.tradeoff)
                   THEN add_codec(b1, "BLOSCLZ") ELSE b1
         IN  IF b.config.perf_mode = "DECOMP" THEN add_codec(b2, "LZ4HC") ELSE b2

\* best and aux_cparams are NULL on the call btune_init makes, allocated on the others
btune_init_clevels(b, min, max, start, allocated) ==
    LET b1 == IF allocated
              THEN [b EXCEPT !.best.clevel = start, !.aux_cparams.clevel = start]
              ELSE b
    IN  [b1 EXCEPT !.clevels = [i \in 1..(max - min + 1) |-> min + i - 1],
                   !.clevel_index = start - min]

extract_btune_cparams(c, d, b, cp) ==
    [cp EXCEPT !.compcode = c.compcode,
               !.filter = c.filter,
               !.clevel = c.clevel,
               !.splitmode = c.splitmode,
               !.blocksize = c.blocksize,
               !.shufflesize = c.typesize,
               !.nthreads_comp = c.nthreads,
               !.nthreads_decomp = IF d = NoDctx THEN b.nthreads_decomp ELSE d.nthreads]

has_ended_clevel(b) ==
    IF b.best.increasing_clevel
    THEN (b.clevel_index + b.step_size) >= Len(b.clevels)
    ELSE (b.clevel_index - b.step_size) < 0

MIN_BITSHUFFLE == 1
MIN_SHUFFLE == 2
MAX_SHUFFLE == 16

has_ended_shuffle(best) ==
    LET min_shuffle == IF best.filter = "SHUFFLE" THEN MIN_SHUFFLE ELSE MIN_BITSHUFFLE
    IN  \/ best.increasing_shuffle /\ best.shufflesize = MAX_SHUFFLE
        \/ ~best.increasing_shuffle /\ best.shufflesize = min_shuffle

has_ended_threads(b) ==
    LET nthreads == IF b.threads_for_comp THEN b.best.nthreads_comp
                    ELSE b.best.nthreads_decomp
    IN  \/ b.best.increasing_nthreads /\ nthreads = b.max_threads
        \/ ~b.best.increasing_nthreads /\ nthreads = MIN_THREADS

init_soft(b) ==
    LET b1 == IF has_ended_clevel(b)
              THEN [b EXCEPT !.best.increasing_clevel = ~@] ELSE b
    IN  [b1 EXCEPT !.state = "CLEVEL", !.step_size = SOFT_STEP_SIZE,
                   !.readapt_from = "SOFT"]

init_hard(b) ==
    LET b1 == [b EXCEPT !.state = "CODEC_FILTER", !.step_size = HARD_STEP_SIZE,
                        !.readapt_from = "HARD",
                        !.threads_for_comp = (b.config.perf_mode # "DECOMP")]
    IN  IF has_ended_shuffle(b1.best)
        THEN [b1 EXCEPT !.best.increasing_shuffle = ~@] ELSE b1

\* minimum_hards that asks for one hard readapt even with a hint
minimum_hards_WithHintToo(b) == 1

minimum_hards(b) == IF b.config.cparams_hint THEN 0 ELSE 1

\* init_without_hards that starts the soft readapt of the STOP case without looking at
\* nsofts_before_hard
init_without_hards_SoftUnguarded(b) ==
    LET bh == b.config.behaviour
        stop_case ==
            IF minimum_hards(b) = 0
            THEN init_soft(b)
            ELSE [b EXCEPT !.state = "STOP", !.readapt_from = "WAIT"]
        soft_case ==
            IF bh.nsofts_before_hard > 0 THEN init_soft(b) ELSE stop_case
        all_case ==
            IF bh.nhards_before_stop > minimum_hards(b) THEN init_hard(b) ELSE soft_case
        b1 == CASE bh.repeat_mode = "REPEAT_ALL" -> all_case
                [] bh.repeat_mode = "REPEAT_SOFT" -> soft_case
                [] OTHER -> stop_case
    IN  [b1 EXCEPT !.is_repeating = TRUE]

\* the switch falls through: REPEAT_ALL -> REPEAT_SOFT -> STOP
init_without_hards(b) ==
    LET bh == b.config.behaviour
        stop_case ==
            IF minimum_hards(b) = 0 /\ bh.nsofts_before_hard > 0
            THEN init_soft(b)
            ELSE [b EXCEPT !.state = "STOP", !.readapt_from = "WAIT"]
        soft_case ==
            IF bh.nsofts_before_hard > 0 THEN init_soft(b) ELSE stop_case
        all_case ==
            IF bh.nhards_before_stop > minimum_hards(b) THEN init_hard(b) ELSE soft_case
        b1 == CASE bh.repeat_mode = "REPEAT_ALL" -> all_case
                [] bh.repeat_mode = "REPEAT_SOFT" -> soft_case
                [] OTHER -> stop_case
    IN  [b1 EXCEPT !.is_repeating = TRUE]

----------------------------------------------------------------------------
(* btune_model.cpp is not part of the sources: the inference front-end is     *)
(* modelled from its description.  A category is a predicted tuple.          *)

Predictions ==
    { [compcode |-> "ZSTD", filter |-> "BITSHUFFLE", clevel |-> 9, splitmode |-> "NEVER_SPLIT"],
      [compcode |-> "LZ4", filter |-> "SHUFFLE", clevel |-> 5, splitmode |-> "ALWAYS_SPLIT"] }

NoPrediction == [error |-> -1]
Predicted(p) ==
    [error |-> 0, compcode |-> p.compcode, filter |-> p.filter, clevel |-> p.clevel,
     splitmode |-> p.splitmode]

\* inference_count counts down from use_inference; 0 when there are no models
btune_model_init(b, models) ==
    [b EXCEPT !.inference_count = IF models THEN b.config.use_inference ELSE 0]

\* the categories predicted most often so far
MostPredicted(b) ==
    { p \in Predictions :
        /\ b.histogram[p] > 0
        /\ \A q \in Predictions : b.histogram[q] <= b.histogram[p] }

\* what btune_model_inference / most_predicted can hand back to this call
InferenceOutcomes(b) ==
    IF b.inference_count # 0
    THEN {NoPrediction} \cup { Predicted(p) : p \in { q \in Predictions : b.histogram[q] < MaxCount } }
    ELSE IF ~b.inference_ended
         THEN IF MostPredicted(b) = {} THEN {NoPrediction}
              ELSE { Predicted(p) : p \in MostPredicted(b) }
         ELSE {NoPrediction}

----------------------------------------------------------------------------
(* btune_init *)

BoolToInt(p) == IF p THEN 1 ELSE 0

\* "2/3 <= tradeoff <= 1." parses as ((2/3 <= tradeoff) <= 1.), with 2/3 an int division
InitClevelGuard(t) == BoolToInt(RatLeq(Rat(IntDiv(2, 3), 1), t)) <= 1

\* ResolvePerfMode keeping the configured mode only when the variable is unset
ResolvePerfMode_EnvFirst(mode, env) ==
    IF env \in {"COMP", "DECOMP", "BALANCED"} THEN env
    ELSE IF mode = "AUTO" THEN "COMP" ELSE mode

\* BTUNE_PERF_MODE is read only when the configured mode is AUTO
ResolvePerfMode(mode, env) ==
    IF mode = "AUTO"
    THEN IF env \in {"COMP", "DECOMP", "BALANCED"} THEN env ELSE "COMP"
    ELSE mode

\* the cparams_hint branch and the plain branch that end btune_init
InitReadapt(b, c, d) ==
    IF b.config.cparams_hint
    THEN LET b1 == [b EXCEPT !.best = extract_btune_cparams(c, d, b, @),
                             !.aux_cparams = extract_btune_cparams(c, d, b, @)]
             b2 == add_codec(b1, c.compcode)
             bh == b.config.behaviour
         IN  IF bh.nhards_before_stop > 0
             THEN IF bh.nsofts_before_hard > 0 THEN init_soft(b2)
                  ELSE IF bh.nwaits_before_readapt > 0
                       THEN [b2 EXCEPT !.state = "WAITING", !.readapt_from = "WAIT"]
                       ELSE init_hard(b2)
             ELSE init_without_hards(b2)
    ELSE [init_hard(b) EXCEPT !.config.behaviour.nhards_before_stop = @ + 1]

\* the step size btune_init sets last, whatever init_soft or init_hard chose
InitStepSize(b) ==
    [b EXCEPT !.step_size = IF b.config.behaviour.nhards_before_stop = 1
                            THEN SOFT_STEP_SIZE ELSE HARD_STEP_SIZE]

\* u: the caller's btune_config (tradeoff within [0, 1]); env: the environment;
\* c, d: the contexts; models: whether models_dir holds model files
btune_init(u, env, c, d, models) ==
    LET config == [perf_mode |-> ResolvePerfMode(u.perf_mode, env.BTUNE_PERF_MODE),
                   tradeoff |-> IF env.BTUNE_TRADEOFF = <<>> THEN u.tradeoff
                                ELSE env.BTUNE_TRADEOFF[1],
                   bandwidth |-> u.bandwidth,
                   behaviour |-> u.behaviour,
                   cparams_hint |-> u.cparams_hint,
                   use_inference |-> u.use_inference]
        max_threads == IF d # NoDctx /\ d.nthreads > c.nthreads THEN d.nthreads
                       ELSE c.nthreads
        nthreads_decomp == IF d # NoDctx THEN d.nthreads ELSE c.nthreads
        b0 == [config |-> config,
               codecs |-> <<>>, filters |-> <<>>, clevels |-> <<>>, clevel_index |-> 0,
               splitmode |-> "AUTO_SPLIT",
               state |-> "CODEC_FILTER", readapt_from |-> "HARD", step_size |-> 0,
               nsofts |-> 0, nhards |-> 0, nwaitings |-> 0, aux_index |-> 0,
               is_repeating |-> FALSE, threads_for_comp |-> FALSE,
               best |-> cparams_btune_default, aux_cparams |-> cparams_btune_default,
               inference_count |-> 0, inference_ended |-> FALSE,
               histogram |-> [p \in Predictions |-> 0],
               max_threads |-> max_threads, nthreads_decomp |-> nthreads_decomp]
        b1 == add_filter(add_filter(add_filter(btune_init_codecs(b0, env.compressors),
                  "NOFILTER"), "SHUFFLE"), "BITSHUFFLE")
        b2 == btune_init_clevels(b1, 1, 9, 9, FALSE)
        first == [compcode |-> CodecAt(b2, 0),
                  clevel |-> IF InitClevelGuard(config.tradeoff) THEN 8
                             ELSE cparams_btune_default.clevel,
                  shufflesize |-> c.typesize,
                  nthreads_comp |-> c.nthreads,
                  nthreads_decomp |-> nthreads_decomp]
        seed == [f \in DOMAIN cparams_btune_default |->
                    IF f \in DOMAIN first THEN first[f] ELSE cparams_btune_default[f]]
        b3 == [b2 EXCEPT !.best = seed, !.aux_cparams = seed,
                         !.threads_for_comp = (config.perf_mode # "DECOMP")]
    IN  btune_model_init(InitStepSize(InitReadapt(b3, c, d)), models)

----------------------------------------------------------------------------
(* btune_next_cparams *)

\* "1/3 <= tradeoff <= 2/3" parses as ((1/3 <= tradeoff) <= 2/3), with int divisions
BalancedCapGuard(t) == BoolToInt(RatLeq(Rat(IntDiv(1, 3), 1), t)) <= IntDiv(2, 3)
\* "2/3 <= tradeoff <= 1.0" parses as ((2/3 <= tradeoff) <= 1.0)
HcrCapGuard(t) == BoolToInt(RatLeq(Rat(IntDiv(2, 3), 1), t)) <= 1

\* the clevel left in the tuple after the two caps (the context got the clevel before them)
CappedClevel(b, cp) ==
    LET l1 == IF /\ BalancedCapGuard(b.config.tradeoff)
                 /\ cp.compcode \in {"ZSTD", "ZLIB"}
                 /\ cp.clevel >= 3
              THEN 3 ELSE cp.clevel
    IN  IF HcrCapGuard(b.config.tradeoff) /\ l1 >= 6 THEN 6 ELSE l1

\* writes the tuple aux_cparams into the contexts; returns the three objects it changes
set_btune_cparams(c, d, b) ==
    LET cp == b.aux_cparams
    IN  [cctx |-> [c EXCEPT !.compcode = cp.compcode,
                            !.filter = cp.filter,
                            !.splitmode = cp.splitmode,
                            !.clevel = cp.clevel,
                            !.blocksize = IF cp.blocksize # 0 THEN cp.blocksize ELSE @,
                            !.typesize = cp.shufflesize,
                            !.new_nthreads = cp.nthreads_comp],
         dctx |-> IF d # NoDctx THEN [d EXCEPT !.new_nthreads = cp.nthreads_decomp] ELSE d,
         btune |-> [b EXCEPT !.aux_cparams.clevel = CappedClevel(b, cp),
                             !.nthreads_decomp = IF d # NoDctx THEN @
                                                 ELSE cp.nthreads_decomp]]

\* InferenceStep that never marks the inference phase as ended
InferenceStep_NeverEnded(b, inf) ==
    IF b.inference_count # 0
    THEN [b EXCEPT !.inference_count = IF @ > 0 THEN @ - 1 ELSE @,
                   !.histogram = IF inf.error = 0
                                 THEN [p \in Predictions |->
                                         IF Predicted(p) = inf THEN @[p] + 1 ELSE @[p]]
                                 ELSE @]
    ELSE b

\* lines 596-607: run the model, or close the inference phase with the most predicted tuple
InferenceStep(b, inf) ==
    IF b.inference_count # 0
    THEN [b EXCEPT !.inference_count = IF @ > 0 THEN @ - 1 ELSE @,
                   !.histogram = IF inf.error = 0
                                 THEN [p \in Predictions |->
                                         IF Predicted(p) = inf THEN @[p] + 1 ELSE @[p]]
                                 ELSE @]
    ELSE IF ~b.inference_ended THEN [b EXCEPT !.inference_ended = TRUE] ELSE b

\* lines 609-622: a prediction replaces the codec, filter and level lists
ApplyPrediction(b, inf) ==
    LET b1 == [b EXCEPT !.codecs = <<inf.compcode>>, !.filters = <<inf.filter>>]
        min == IF inf.clevel > 1 THEN inf.clevel - 1 ELSE inf.clevel
        max == IF inf.clevel < 9 THEN inf.clevel + 1 ELSE inf.clevel
    IN  IF b.config.perf_mode = "DECOMP"
        THEN btune_init_clevels(b1, inf.clevel, inf.clevel, inf.clevel, TRUE)
        ELSE btune_init_clevels(b1, min, max, inf.clevel, TRUE)

\* BLOSC_ALWAYS_SPLIT is 1 and BLOSC_NEVER_SPLIT is 2: (aux_index % 2) + 1
SplitOfIndex(i) == IF i % 2 = 0 THEN "ALWAYS_SPLIT" ELSE "NEVER_SPLIT"

\* ProposeCodecFilter that forgets to advance aux_index
ProposeCodecFilter_NoAdvance(b) ==
    LET n_filters_splits == Len(b.filters) * 2
        compcode == CodecAt(b, b.aux_index \div n_filters_splits)
        filter == b.filters[((b.aux_index % n_filters_splits) \div 2) + 1]
        splitmode == IF b.splitmode = "AUTO_SPLIT" THEN SplitOfIndex(b.aux_index)
                     ELSE b.splitmode
        first_zstd == /\ b.config.perf_mode \in {"COMP", "BALANCED"}
                      /\ compcode \in {"ZSTD", "ZLIB"}
                      /\ b.nhards = 0
    IN  [b EXCEPT !.aux_cparams.compcode = compcode,
                  !.aux_cparams.filter = filter,
                  !.aux_cparams.splitmode = splitmode,
                  !.aux_cparams.clevel = IF first_zstd THEN 3 ELSE @]

\* ProposeCodecFilter that takes the split mode from the filter's parity
ProposeCodecFilter_SplitWithFilter(b) ==
    LET n_filters_splits == Len(b.filters) * 2
        compcode == CodecAt(b, b.aux_index \div n_filters_splits)
        filter == b.filters[((b.aux_index % n_filters_splits) \div 2) + 1]
        splitmode == IF b.splitmode = "AUTO_SPLIT"
                     THEN SplitOfIndex(b.aux_index \div 2)
                     ELSE b.splitmode
        first_zstd == /\ b.config.perf_mode \in {"COMP", "BALANCED"}
                      /\ compcode \in {"ZSTD", "ZLIB"}
                      /\ b.nhards = 0
    IN  [b EXCEPT !.aux_cparams.compcode = compcode,
                  !.aux_cparams.filter = filter,
                  !.aux_cparams.splitmode = splitmode,
                  !.aux_cparams.clevel = IF first_zstd THEN 3 ELSE @,
                  !.aux_index = IF b.inference_ended THEN @ + 1 ELSE @]

ProposeCodecFilter(b) ==
    LET n_filters_splits == Len(b.filters) * 2
        compcode == CodecAt(b, b.aux_index \div n_filters_splits)
        filter == b.filters[((b.aux_index % n_filters_splits) \div 2) + 1]
        splitmode == IF b.splitmode = "AUTO_SPLIT" THEN SplitOfIndex(b.aux_index)
                     ELSE b.splitmode
        first_zstd == /\ b.config.perf_mode \in {"COMP", "BALANCED"}
                      /\ compcode \in {"ZSTD", "ZLIB"}
                      /\ b.nhards = 0
    IN  [b EXCEPT !.aux_cparams.compcode = compcode,
                  !.aux_cparams.filter = filter,
                  !.aux_cparams.splitmode = splitmode,
                  !.aux_cparams.clevel = IF first_zstd THEN 3 ELSE @,
                  !.aux_index = IF b.inference_ended THEN @ + 1 ELSE @]

\* ProposeThreads adding a thread without looking at max_threads
ProposeThreads_NoUpperLimit(b) ==
    LET cp == b.aux_cparams
        n == IF b.threads_for_comp THEN cp.nthreads_comp ELSE cp.nthreads_decomp
        n1 == IF cp.increasing_nthreads
              THEN n + 1
              ELSE IF n > MIN_THREADS THEN n - 1 ELSE n
    IN  IF b.threads_for_comp
        THEN [b EXCEPT !.aux_index = @ + 1, !.aux_cparams.nthreads_comp = n1]
        ELSE [b EXCEPT !.aux_index = @ + 1, !.aux_cparams.nthreads_decomp = n1]

ProposeThreads(b) ==
    LET cp == b.aux_cparams
        n == IF b.threads_for_comp THEN cp.nthreads_comp ELSE cp.nthreads_decomp
        n1 == IF cp.increasing_nthreads
              THEN IF n < b.max_threads THEN n + 1 ELSE n
              ELSE IF n > MIN_THREADS THEN n - 1 ELSE n
    IN  IF b.threads_for_comp
        THEN [b EXCEPT !.aux_index = @ + 1, !.aux_cparams.nthreads_comp = n1]
        ELSE [b EXCEPT !.aux_index = @ + 1, !.aux_cparams.nthreads_decomp = n1]

ProposeClevel(b) ==
    LET idx == IF ~has_ended_clevel(b)
               THEN IF b.aux_cparams.increasing_clevel
                    THEN b.clevel_index + b.step_size
                    ELSE b.clevel_index - b.step_size
               ELSE b.clevel_index
        clevel == b.clevels[idx + 1]
    IN  [b EXCEPT !.aux_index = @ + 1,
                  !.clevel_index = idx,
                  !.aux_cparams.clevel =
                      IF clevel = 9 /\ b.aux_cparams.compcode = "ZSTD" THEN 8 ELSE clevel]

\* Propose counting two waits for each chunk compressed while WAITING
Propose_WaitCountedTwice(b) ==
    CASE b.state = "CODEC_FILTER" -> ProposeCodecFilter(b)
      [] b.state = "THREADS" -> ProposeThreads(b)
      [] b.state = "CLEVEL" -> ProposeClevel(b)
      [] b.state = "WAITING" -> [b EXCEPT !.nwaitings = @ + 2]
      [] OTHER -> b

\* Propose trying a neighbouring clevel while WAITING
Propose_ProbeWhileWaiting(b) ==
    CASE b.state = "CODEC_FILTER" -> ProposeCodecFilter(b)
      [] b.state = "THREADS" -> ProposeThreads(b)
      [] b.state = "CLEVEL" -> ProposeClevel(b)
      [] b.state = "WAITING" ->
            [b EXCEPT !.nwaitings = @ + 1,
                      !.aux_cparams.clevel = IF @ > 1 THEN @ - 1 ELSE @ + 1]
      [] OTHER -> b

\* the switch on the state; SHUFFLE_SIZE and MEMCPY are compiled out of the transitions
Propose(b) ==
    CASE b.state = "CODEC_FILTER" -> ProposeCodecFilter(b)
      [] b.state = "THREADS" -> ProposeThreads(b)
      [] b.state = "CLEVEL" -> ProposeClevel(b)
      [] b.state = "WAITING" -> [b EXCEPT !.nwaitings = @ + 1]
      [] OTHER -> b

\* returns the three objects the call changes
btune_next_cparams(c, d, b, inf) ==
    LET b1 == InferenceStep(b, inf)
        b2 == IF inf.error = 0 THEN ApplyPrediction(b1, inf) ELSE b1
        b3 == [b2 EXCEPT !.aux_cparams = b2.best]
    IN  IF b3.state = "STOP"
        THEN [cctx |-> c, dctx |-> d, btune |-> b3]
        ELSE LET r == set_btune_cparams(c, d, Propose(b3))
             IN  [r EXCEPT !.cctx.blocksize = IF @ > c.sourcesize THEN c.sourcesize ELSE @]

----------------------------------------------------------------------------
(* btune_update *)

\* ctime + reduced_cbytes / bandwidth + dtime, with the terms the perf_mode selects
score_function(b, ctime, cbytes, dtime) ==
    LET den == BTUNE_KB * b.config.bandwidth
        time == CASE b.config.perf_mode = "COMP" -> ctime
                  [] b.config.perf_mode = "DECOMP" -> dtime
                  [] OTHER -> ctime + dtime
    IN  Rat(time * den + cbytes, den)

\* has_improved judging the high-ratio band by the score
has_improved_ScoreInHcr(b, score_coef, cratio_coef) ==
    LET t == b.config.tradeoff
        cr(n, d) == RatLt(Rat(n, d), cratio_coef)
        sc(n, d) == RatLt(Rat(n, d), score_coef)
    IN  IF RatLeq(t, Rat(IntDiv(1, 3), 1))
        THEN \/ cr(1, 1) /\ sc(1, 1)
             \/ cr(1, 2) /\ sc(2, 1)
             \/ cr(67, 100) /\ sc(13, 10)
             \/ cr(2, 1) /\ sc(7, 10)
        ELSE IF RatLeq(t, Rat(IntDiv(2, 3), 1))
             THEN \/ cr(1, 1) /\ sc(1, 1)
                  \/ cr(11, 10) /\ sc(8, 10)
                  \/ cr(13, 10) /\ sc(5, 10)
             ELSE IF RatLeq(t, Rat(1, 1)) THEN sc(1, 1) ELSE FALSE

\* has_improved comparing with >= where the code compares with >
has_improved_NotStrict(b, score_coef, cratio_coef) ==
    LET t == b.config.tradeoff
        cr(n, d) == RatLeq(Rat(n, d), cratio_coef)
        sc(n, d) == RatLeq(Rat(n, d), score_coef)
    IN  IF RatLeq(t, Rat(IntDiv(1, 3), 1))
        THEN \/ cr(1, 1) /\ sc(1, 1)
             \/ cr(1, 2) /\ sc(2, 1)
             \/ cr(67, 100) /\ sc(13, 10)
             \/ cr(2, 1) /\ sc(7, 10)
        ELSE IF RatLeq(t, Rat(IntDiv(2, 3), 1))
             THEN \/ cr(1, 1) /\ sc(1, 1)
                  \/ cr(11, 10) /\ sc(8, 10)
                  \/ cr(13, 10) /\ sc(5, 10)
             ELSE IF RatLeq(t, Rat(1, 1)) THEN cr(1, 1) ELSE FALSE

\* "tradeoff <= 1/3" and "tradeoff <= 2/3" compare with the int divisions 1/3 and 2/3
has_improved(b, score_coef, cratio_coef) ==
    LET t == b.config.tradeoff
        cr(n, d) == RatLt(Rat(n, d), cratio_coef)
        sc(n, d) == RatLt(Rat(n, d), score_coef)
    IN  IF RatLeq(t, Rat(IntDiv(1, 3), 1))
        THEN \/ cr(1, 1) /\ sc(1, 1)
             \/ cr(1, 2) /\ sc(2, 1)
             \/ cr(67, 100) /\ sc(13, 10)
             \/ cr(2, 1) /\ sc(7, 10)
        ELSE IF RatLeq(t, Rat(IntDiv(2, 3), 1))
             THEN \/ cr(1, 1) /\ sc(1, 1)
                  \/ cr(11, 10) /\ sc(8, 10)
                  \/ cr(13, 10) /\ sc(5, 10)
             ELSE IF RatLeq(t, Rat(1, 1)) THEN cr(1, 1) ELSE FALSE

\* IsLastHard counting the hard readapt one too early
IsLastHard_OneEarly(b) ==
    \/ b.config.behaviour.nhards_before_stop = minimum_hards(b)
    \/ (b.nhards + 1) % b.config.behaviour.nhards_before_stop = 0

\* lines 828-829: the hard readapt just counted completes the initial readapts
IsLastHard(b) ==
    \/ b.config.behaviour.nhards_before_stop = minimum_hards(b)
    \/ b.nhards % b.config.behaviour.nhards_before_stop = 0

\* AfterLastHard that lets REPEAT_SOFT go on to the waits and hards as REPEAT_ALL does
AfterLastHard_SoftRepeatsAll(b) ==
    LET bh == b.config.behaviour
    IN  IF bh.nsofts_before_hard > 0 /\ bh.repeat_mode # "STOP"
        THEN init_soft(b)
        ELSE IF bh.repeat_mode = "STOP"
        THEN [b EXCEPT !.state = "STOP"]
        ELSE IF bh.nwaits_before_readapt > 0
        THEN [b EXCEPT !.state = "WAITING", !.readapt_from = "WAIT"]
        ELSE IF bh.nhards_before_stop > minimum_hards(b)
        THEN init_hard(b)
        ELSE [b EXCEPT !.state = "STOP"]

\* lines 832-848: what follows the last hard readapt, by repeat_mode
AfterLastHard(b) ==
    LET bh == b.config.behaviour
    IN  IF bh.nsofts_before_hard > 0 /\ bh.repeat_mode # "STOP"
        THEN init_soft(b)
        ELSE IF bh.repeat_mode # "REPEAT_ALL"
        THEN [b EXCEPT !.state = "STOP"]
        ELSE IF bh.nwaits_before_readapt > 0
        THEN [b EXCEPT !.state = "WAITING", !.readapt_from = "WAIT"]
        ELSE IF bh.nhards_before_stop > minimum_hards(b)
        THEN init_hard(b)
        ELSE [b EXCEPT !.state = "STOP"]

\* process_waiting_state whose SOFT case starts a hard readapt after the last soft one
\* even when the initial readapts are already completed
process_waiting_state_HardWhileRepeating(b) ==
    LET bh == b.config.behaviour
        min_hards == minimum_hards(b)
        hard_case ==
            LET b1 == [b EXCEPT !.nhards = @ + 1]
            IN  IF IsLastHard(b1)
                THEN AfterLastHard([b1 EXCEPT !.is_repeating = TRUE])
                ELSE IF bh.nsofts_before_hard > 0
                THEN init_soft(b1)
                ELSE IF bh.nwaits_before_readapt > 0
                THEN [b1 EXCEPT !.state = "WAITING", !.readapt_from = "WAIT"]
                ELSE init_hard(b1)
        soft_case ==
            LET b1 == [b EXCEPT !.nsofts = @ + 1, !.readapt_from = "WAIT"]
            IN  IF bh.nwaits_before_readapt = 0
                THEN IF /\ \/ bh.nsofts_before_hard = 0
                           \/ b1.nsofts % bh.nsofts_before_hard = 0
                        /\ bh.nhards_before_stop > min_hards
                     THEN init_hard(b1)
                     ELSE IF /\ min_hards = 0
                             /\ bh.nhards_before_stop = 0
                             /\ b1.nsofts % bh.nsofts_before_hard = 0
                             /\ bh.repeat_mode = "STOP"
                     THEN [b1 EXCEPT !.is_repeating = TRUE, !.state = "STOP"]
                     ELSE init_soft(b1)
                ELSE b1
        wait_case ==
            IF \/ bh.nwaits_before_readapt = 0
               \/ /\ b.nwaitings # 0
                  /\ b.nwaitings % bh.nwaits_before_readapt = 0
            THEN IF /\ \/ bh.nsofts_before_hard = 0
                       \/ /\ b.nsofts # 0
                          /\ b.nsofts % bh.nsofts_before_hard = 0
                    /\ ~(b.is_repeating /\ bh.repeat_mode # "REPEAT_ALL")
                    /\ bh.nhards_before_stop > min_hards
                 THEN init_hard(b)
                 ELSE IF /\ bh.nsofts_before_hard > 0
                         /\ ~(b.is_repeating /\ bh.repeat_mode = "STOP")
                 THEN init_soft(b)
                 ELSE b
            ELSE b
        b3 == CASE b.readapt_from = "HARD" -> hard_case
                [] b.readapt_from = "SOFT" -> soft_case
                [] OTHER -> wait_case
    IN  IF b3.readapt_from = "HARD" /\ b3.nhards = bh.nhards_before_stop - 1
        THEN [b3 EXCEPT !.step_size = SOFT_STEP_SIZE]
        ELSE b3

\* is_repeating, the state after the decision, the counters
process_waiting_state(b) ==
    LET bh == b.config.behaviour
        min_hards == minimum_hards(b)
        hard_case ==
            LET b1 == [b EXCEPT !.nhards = @ + 1]
            IN  IF IsLastHard(b1)
                THEN AfterLastHard([b1 EXCEPT !.is_repeating = TRUE])
                ELSE IF bh.nsofts_before_hard > 0
                THEN init_soft(b1)
                ELSE IF bh.nwaits_before_readapt > 0
                THEN [b1 EXCEPT !.state = "WAITING", !.readapt_from = "WAIT"]
                ELSE init_hard(b1)
        soft_case ==
            LET b1 == [b EXCEPT !.nsofts = @ + 1, !.readapt_from = "WAIT"]
            IN  IF bh.nwaits_before_readapt = 0
                THEN IF /\ \/ bh.nsofts_before_hard = 0
                           \/ b1.nsofts % bh.nsofts_before_hard = 0
                        /\ ~(b1.is_repeating /\ bh.repeat_mode # "REPEAT_ALL")
                        /\ bh.nhards_before_stop > min_hards
                     THEN init_hard(b1)
                     ELSE IF /\ min_hards = 0
                             /\ bh.nhards_before_stop = 0
                             /\ b1.nsofts % bh.nsofts_before_hard = 0
                             /\ bh.repeat_mode = "STOP"
                     THEN [b1 EXCEPT !.is_repeating = TRUE, !.state = "STOP"]
                     ELSE init_soft(b1)
                ELSE b1
        wait_case ==
            IF \/ bh.nwaits_before_readapt = 0
               \/ /\ b.nwaitings # 0
                  /\ b.nwaitings % bh.nwaits_before_readapt = 0
            THEN IF /\ \/ bh.nsofts_before_hard = 0
                       \/ /\ b.nsofts # 0
                          /\ b.nsofts % bh.nsofts_before_hard = 0
                    /\ ~(b.is_repeating /\ bh.repeat_mode # "REPEAT_ALL")
                    /\ bh.nhards_before_stop > min_hards
                 THEN init_hard(b)
                 ELSE IF /\ bh.nsofts_before_hard > 0
                         /\ ~(b.is_repeating /\ bh.repeat_mode = "STOP")
                 THEN init_soft(b)
                 ELSE b
            ELSE b
        b3 == CASE b.readapt_from = "HARD" -> hard_case
                [] b.readapt_from = "SOFT" -> soft_case
                [] OTHER -> wait_case
    IN  IF b3.readapt_from = "HARD" /\ b3.nhards = bh.nhards_before_stop - 1
        THEN [b3 EXCEPT !.step_size = SOFT_STEP_SIZE]
        ELSE b3

FlipClevelIfEnded(b) ==
    IF has_ended_clevel(b) THEN [b EXCEPT !.best.increasing_clevel = ~@] ELSE b

\* UpdateCodecFilter ending the sweep without counting the two split modes
UpdateCodecFilter_NoSplitFactor(b) ==
    LET aux_index_max == Len(b.codecs) * Len(b.filters)
    IN  IF b.aux_index >= aux_index_max
        THEN LET b1 == [b EXCEPT !.aux_index = 0]
             IN  IF b.max_threads = 1
                 THEN FlipClevelIfEnded([b1 EXCEPT !.state = "CLEVEL"])
                 ELSE LET b2 == [b1 EXCEPT !.state = "THREADS"]
                      IN  IF has_ended_shuffle(b2.best)
                          THEN [b2 EXCEPT !.best.increasing_nthreads = ~@]
                          ELSE b2
        ELSE b

\* UpdateCodecFilter going on to THREADS whatever max_threads is
UpdateCodecFilter_ThreadsAlways(b) ==
    LET aux_index_max == Len(b.codecs) * Len(b.filters)
                         * (IF b.splitmode = "AUTO_SPLIT" THEN 2 ELSE 1)
    IN  IF b.aux_index >= aux_index_max
        THEN LET b2 == [b EXCEPT !.aux_index = 0, !.state = "THREADS"]
             IN  IF has_ended_shuffle(b2.best)
                 THEN [b2 EXCEPT !.best.increasing_nthreads = ~@]
                 ELSE b2
        ELSE b

\* CODEC_FILTER: BTUNE_ENABLE_SHUFFLESIZE is false and BTUNE_ENABLE_THREADS is true
UpdateCodecFilter(b) ==
    LET aux_index_max == Len(b.codecs) * Len(b.filters)
                         * (IF b.splitmode = "AUTO_SPLIT" THEN 2 ELSE 1)
    IN  IF b.aux_index >= aux_index_max
        THEN LET b1 == [b EXCEPT !.aux_index = 0]
             IN  IF b.max_threads = 1
                 THEN FlipClevelIfEnded([b1 EXCEPT !.state = "CLEVEL"])
                 ELSE LET b2 == [b1 EXCEPT !.state = "THREADS"]
                      IN  IF has_ended_shuffle(b2.best)
                          THEN [b2 EXCEPT !.best.increasing_nthreads = ~@]
                          ELSE b2
        ELSE b

UpdateThreads(b, improved) ==
    LET first_time == (b.aux_index % MAX_STATE_THREADS) = 1
        b1 == IF ~improved /\ first_time
              THEN [b EXCEPT !.best.increasing_nthreads = ~@] ELSE b
    IN  IF has_ended_threads(b1) \/ (~improved /\ ~first_time)
        THEN LET b2 == IF b1.config.perf_mode = "BALANCED"
                       THEN IF b1.aux_index < MAX_STATE_THREADS
                            THEN LET b21 == [b1 EXCEPT !.threads_for_comp = ~@,
                                                       !.aux_index = MAX_STATE_THREADS]
                                 IN  IF has_ended_threads(b21)
                                     THEN [b21 EXCEPT !.best.increasing_nthreads = ~@]
                                     ELSE b21
                            ELSE b1
                       ELSE [b1 EXCEPT !.aux_index = MAX_STATE_THREADS + 1]
             IN  IF b2.aux_index > MAX_STATE_THREADS
                 THEN FlipClevelIfEnded([b2 EXCEPT !.aux_index = 0, !.state = "CLEVEL"])
                 ELSE b2
        ELSE b1

\* BTUNE_ENABLE_MEMCPY is false
UpdateClevel(b, improved) ==
    LET first_time == b.aux_index = 1
        b1 == IF ~improved /\ first_time
              THEN [b EXCEPT !.best.increasing_clevel = ~@] ELSE b
    IN  IF has_ended_clevel(b1) \/ (~improved /\ ~first_time)
        THEN [b1 EXCEPT !.aux_index = 0, !.state = "WAITING"]
        ELSE b1

update_aux(b, improved) ==
    LET b1 == CASE b.state = "CODEC_FILTER" -> UpdateCodecFilter(b)
                [] b.state = "THREADS" -> UpdateThreads(b, improved)
                [] b.state = "CLEVEL" -> UpdateClevel(b, improved)
                [] OTHER -> b
    IN  IF b1.state = "WAITING" THEN process_waiting_state(b1) ELSE b1

\* whether update decompresses the chunk to measure dtime (context->dest is not NULL)
MeasuresDtime(b) ==
    /\ ~(/\ b.state = "WAITING"
         /\ \/ b.config.behaviour.nwaits_before_readapt = 0
            \/ b.nwaitings % b.config.behaviour.nwaits_before_readapt # 0)
    /\ b.config.perf_mode \in {"DECOMP", "BALANCED"}

\* cbytes <= BLOSC2_MAX_OVERHEAD + typesize
IsSpecial(c, cbytes) == cbytes <= BLOSC2_MAX_OVERHEAD + c.typesize

\* Improved without the special-chunk test
Improved_NoSpecialTest(b, c, ctime, cbytes, dtime) ==
    LET score == score_function(b, ctime, cbytes, dtime)
        cratio == Rat(c.sourcesize, cbytes)
        cratio_coef == RatDiv(cratio, b.best.cratio)
        score_coef == RatDiv(b.best.score, score)
    IN  IF b.state = "THREADS"
        THEN IF b.threads_for_comp THEN ctime < b.best.ctime
             ELSE dtime < b.best.dtime
        ELSE has_improved(b, score_coef, cratio_coef)

\* the improvement verdict of lines 1094-1112
Improved(b, c, ctime, cbytes, dtime) ==
    LET score == score_function(b, ctime, cbytes, dtime)
        cratio == Rat(c.sourcesize, cbytes)
        cratio_coef == RatDiv(cratio, b.best.cratio)
        score_coef == RatDiv(b.best.score, score)
        verdict == IF b.state = "THREADS"
                   THEN IF b.threads_for_comp THEN ctime < b.best.ctime
                        ELSE dtime < b.best.dtime
                   ELSE has_improved(b, score_coef, cratio_coef)
    IN  IF IsSpecial(c, cbytes) THEN FALSE ELSE verdict

\* the winner column of the trace line
Winner(c, cbytes, improved) ==
    IF improved THEN "W" ELSE IF IsSpecial(c, cbytes) THEN "S" ELSE "-"

\* AcceptBest copying the tried tuple whatever the verdict
AcceptBest_Always(b, improved) ==
    [b EXCEPT !.best = b.aux_cparams]

\* lines 1131-1135: *best = *cparams, only when improved
AcceptBest(b, improved) ==
    IF improved THEN [b EXCEPT !.best = b.aux_cparams] ELSE b

\* TraceRows printing a row while the readapts are repeated too
TraceRows_AlsoRepeating(b, env) ==
    IF b.state # "STOP" /\ env.BTUNE_TRACE THEN 1 ELSE 0

\* the rows btune_update prints: one, when BTUNE_TRACE is set and the initial readapts
\* are not over (is_repeating as it is before update_aux); none in STOP (early return)
TraceRows(b, env) ==
    IF b.state # "STOP" /\ ~b.is_repeating /\ env.BTUNE_TRACE THEN 1 ELSE 0

\* cbytes is context->destsize; dtime_in is the time the decompression takes when it is run
btune_update(c, b, ctime, cbytes, dtime_in) ==
    IF b.state = "STOP"
    THEN b
    ELSE LET dtime == IF MeasuresDtime(b) THEN dtime_in ELSE 0
             improved == Improved(b, c, ctime, cbytes, dtime)
             b1 == [b EXCEPT !.aux_cparams.score = score_function(b, ctime, cbytes, dtime),
                             !.aux_cparams.cratio = Rat(c.sourcesize, cbytes),
                             !.aux_cparams.ctime = ctime,
                             !.aux_cparams.dtime = dtime]
         IN  update_aux(AcceptBest(b1, improved), improved)

----------------------------------------------------------------------------
(* The pipeline: btune_init, then next_cparams and update in turn *)

Tradeoffs == {Rat(0, 1), Rat(1, 2), Rat(1, 1)}

Behaviours ==
    [nwaits_before_readapt : 0..MaxBehaviour, nsofts_before_hard : 0..MaxBehaviour,
     nhards_before_stop : 0..MaxBehaviour, repeat_mode : RepeatModes]

\* BTUNE_PERF_MODE is the text of the variable or "unset"; BTUNE_TRADEOFF is <<>> when
\* unset and otherwise holds the number atof reads from the text; BTUNE_TRACE is whether
\* the variable is set
\* compressors is what blosc2_list_compressors() returns: every codec in a full build
AllCompressors == {"blosclz", "lz4", "lz4hc", "zlib", "zstd"}
NoEnv ==
    [BTUNE_PERF_MODE |-> "unset", BTUNE_TRADEOFF |-> <<>>, BTUNE_TRACE |-> FALSE,
     compressors |-> AllCompressors]

\* what a pointer of the pipeline can refer to: nothing, the configuration object of the
\* caller, the struct that btune_init allocated last for the context, or the configuration
\* stored inside that struct
NULL == "NULL"
CallerConfig == "caller_config"
TunerStruct == "btune"
TunerStructConfig == "btune.config"

\* lines 421, 422 and 458: the pointers btune_init installs
install_tuner_params(c) ==
    [c EXCEPT !.schunk.tuner_params = TunerStructConfig,
              !.schunk.storage.cparams.tuner_params = TunerStructConfig,
              !.tuner_params = TunerStruct]

\* the compression context the caller built: 4 KiB chunks of 4-byte items
CallerCctx(compcode, clevel, nthreads) ==
    [compcode |-> compcode, filter |-> "SHUFFLE", splitmode |-> "FORWARD_COMPAT_SPLIT",
     clevel |-> clevel, blocksize |-> 0, typesize |-> 4, sourcesize |-> 4096,
     nthreads |-> nthreads, new_nthreads |-> nthreads,
     tuner_params |-> CallerConfig,
     schunk |-> [tuner_params |-> CallerConfig,
                 storage |-> [cparams |-> [tuner_params |-> CallerConfig]]]]

CallerDctx(nthreads) == [nthreads |-> nthreads, new_nthreads |-> nthreads]

\* what compressing one chunk can give: ctime (s), cbytes and dtime (s).  The first
\* is a special chunk; the others trade size against time in both directions.
\* On a pool larger than MAX_STATE_THREADS the threads contend: the chunk takes one
\* second per compression thread in use.
Chunks(c) ==
    IF c.nthreads > MAX_STATE_THREADS
    THEN { [ctime |-> c.new_nthreads, cbytes |-> c.sourcesize \div 4, dtime |-> 1] }
    ELSE { [ctime |-> 1, cbytes |-> BLOSC2_MAX_OVERHEAD + c.typesize, dtime |-> 1],
           [ctime |-> 1, cbytes |-> c.sourcesize \div 4, dtime |-> 1],
           [ctime |-> 3, cbytes |-> c.sourcesize \div 4, dtime |-> 3],
           [ctime |-> 1, cbytes |-> c.sourcesize \div 2, dtime |-> 1] }

\* entropy_probe.c: fills the codec (id 244, "entropy_probe", no decoder) and hands it to
\* blosc2_register_codec, whatever was registered before
register_entropy_codec(calls) == calls + 1

\* no get_cratio call is running
IdleProbe == [pc |-> "idle"]

\* the tuner after btune_init
TunerInit(u, env, c, d, models) ==
    /\ user = u
    /\ environ = env
    /\ btune = btune_init(u, env, c, d, models)
    /\ cctx = install_tuner_params(c)
    /\ dctx = d
    /\ phase = "next"
    /\ winner = ""
    /\ best_before = btune.best
    /\ predicted = FALSE
    /\ best_init = btune.best
    /\ all_special = TRUE
    /\ registrations = register_entropy_codec(0)
    /\ trace_lines = 0
    /\ dfailed = FALSE

InitFrom(u, env, c, d, models) ==
    /\ TunerInit(u, env, c, d, models)
    /\ probe = IdleProbe

\* the counters grow without limit only once the initial readapts are repeated; they
\* no longer grow once the state is STOP
CountersInBound(b) ==
    (b.is_repeating /\ b.state # "STOP") =>
        /\ b.nhards <= MaxCount
        /\ b.nsofts <= MaxCount
        /\ b.nwaitings <= MaxCount

NextCparams ==
    /\ phase = "next"
    /\ \E inf \in InferenceOutcomes(btune) :
         \E r \in {btune_next_cparams(cctx, dctx, btune, inf)} :
             /\ CountersInBound(r.btune)
             /\ btune' = r.btune
             /\ cctx' = r.cctx
             /\ dctx' = r.dctx
             /\ best_before' = btune.best
             /\ predicted' = (inf.error = 0)
    /\ phase' = "update"
    /\ UNCHANGED <<user, environ, winner, best_init, all_special, registrations,
                   trace_lines, dfailed, probe>>

Update ==
    /\ phase = "update"
    /\ \E k \in Chunks(cctx) :
         \E b \in {btune_update(cctx, btune, k.ctime, k.cbytes, k.dtime)} :
             /\ CountersInBound(b)
             /\ btune' = b
             /\ all_special' = (all_special /\ IsSpecial(cctx, k.cbytes))
             /\ trace_lines' = TraceRows(btune, environ)
             /\ winner' = IF btune.state = "STOP" THEN winner
                          ELSE Winner(cctx, k.cbytes,
                                      Improved(btune, cctx, k.ctime, k.cbytes,
                                               IF MeasuresDtime(btune) THEN k.dtime ELSE 0))
    /\ phase' = "next"
    /\ dfailed' = FALSE
    /\ UNCHANGED <<user, environ, cctx, dctx, best_before, predicted, best_init,
                   registrations, probe>>

Next == NextCparams \/ Update

\* the time blosc2_decompress_ctx can take before it returns an error
FailedDtimes == {1, 3}

\* btune_update on a chunk whose decompression fails: the return value of
\* blosc2_decompress_ctx is not read and the elapsed time is taken as dtime
UpdateDecompressFails ==
    /\ phase = "update"
    /\ btune.state # "STOP"
    /\ MeasuresDtime(btune)
    /\ \E k \in Chunks(cctx), elapsed \in FailedDtimes :
         \E b \in {btune_update(cctx, btune, k.ctime, k.cbytes, elapsed)} :
             /\ CountersInBound(b)
             /\ btune' = b
             /\ all_special' = (all_special /\ IsSpecial(cctx, k.cbytes))
             /\ trace_lines' = TraceRows(btune, environ)
             /\ winner' = Winner(cctx, k.cbytes,
                                 Improved(btune, cctx, k.ctime, k.cbytes, elapsed))
    /\ phase' = "next"
    /\ dfailed' = TRUE
    /\ UNCHANGED <<user, environ, cctx, dctx, best_before, predicted, best_init,
                   registrations, probe>>

FaultNext == NextCparams \/ Update \/ UpdateDecompressFails

\* btune_free between two chunks: the tuner is released, tuner_params is NULL
Free ==
    /\ phase = "next"
    /\ registrations < MaxInits
    /\ phase' = "freed"
    /\ cctx' = [cctx EXCEPT !.tuner_params = NULL]
    /\ UNCHANGED <<user, environ, btune, dctx, winner, best_before, predicted,
                   best_init, all_special, registrations, trace_lines, dfailed, probe>>

\* btune_init once more on the freed context, with the same configuration
InitAgain ==
    /\ phase = "freed"
    /\ btune' = btune_init(user, environ, cctx, dctx, FALSE)
    /\ cctx' = install_tuner_params(cctx)
    /\ registrations' = register_entropy_codec(registrations)
    /\ phase' = "next"
    /\ winner' = ""
    /\ best_before' = btune'.best
    /\ predicted' = FALSE
    /\ best_init' = btune'.best
    /\ all_special' = TRUE
    /\ trace_lines' = 0
    /\ dfailed' = FALSE
    /\ UNCHANGED <<user, environ, dctx, probe>>

\* btune_init on another context of the process: this context keeps its tuner
InitOtherContext ==
    /\ phase # "freed"
    /\ registrations < MaxInits
    /\ registrations' = register_entropy_codec(registrations)
    /\ UNCHANGED <<user, environ, btune, cctx, dctx, phase, winner, best_before,
                   predicted, best_init, all_special, trace_lines, dfailed, probe>>

ProcessNext == NextCparams \/ Update \/ Free \/ InitAgain \/ InitOtherContext

Cfg(perf_mode, tradeoff, behaviour, cparams_hint, use_inference) ==
    [perf_mode |-> perf_mode, tradeoff |-> tradeoff, bandwidth |-> 1,
     behaviour |-> behaviour, cparams_hint |-> cparams_hint,
     use_inference |-> use_inference]

Bhv(nwaits, nsofts, nhards, repeat_mode) ==
    [nwaits_before_readapt |-> nwaits, nsofts_before_hard |-> nsofts,
     nhards_before_stop |-> nhards, repeat_mode |-> repeat_mode]

\* a run: a caller configuration, the two contexts and whether model files exist
Run(u, c, d, models) == [u |-> u, c |-> c, d |-> d, models |-> models]

InitOver(runs) ==
    \E r \in runs : InitFrom(r.u, NoEnv, r.c, r.d, r.models)

\* every behaviour, without hint and without inference, one thread
SearchRuns ==
    { Run(Cfg("COMP", Rat(0, 1), bh, FALSE, 0), CallerCctx("LZ4", 5, 1), NoDctx, FALSE)
        : bh \in Behaviours }

Init == InitOver(SearchRuns)

Spec == Init /\ [][Next]_vars

\* every behaviour with repeat_mode STOP, two that repeat the soft readapts, and two runs
\* with model files: inference on the first chunk only, and on every chunk
FairRuns ==
    { r \in SearchRuns : r.u.behaviour.repeat_mode = "STOP" }
    \cup
    { Run(Cfg("COMP", Rat(0, 1), Bhv(0, 1, 0, rm), FALSE, 0),
          CallerCctx("LZ4", 5, 1), NoDctx, FALSE) : rm \in {"REPEAT_ALL", "REPEAT_SOFT"} }
    \cup
    { Run(Cfg("COMP", Rat(0, 1), Bhv(0, 1, 1, "STOP"), FALSE, ui), CallerCctx("LZ4", 5, 1),
          NoDctx, TRUE) : ui \in {1, -1} }

FairInit == InitOver(FairRuns)

\* the caller keeps alternating the two calls for as long as one of them is due
FairSpec == FairInit /\ [][Next]_vars /\ WF_vars(Next)

\* the caller's own parameters as a hint (clevel 0 or 5), model files present, inference
\* on every chunk or on the first one
HintRuns ==
    { Run(Cfg("COMP", Rat(1, 2), bh, TRUE, ui), CallerCctx("LZ4", cl, 1), NoDctx, TRUE)
        : bh \in {Bhv(0, 0, 0, "STOP"), Bhv(0, 1, 0, "STOP"), Bhv(0, 0, 1, "STOP")},
          ui \in {-1, 1}, cl \in {0, 5} }

HintInit == InitOver(HintRuns)

HintSpec == HintInit /\ [][Next]_vars

\* two threads on each side: every tradeoff band without inference, and two runs with
\* one inference
ThreadRuns ==
    { Run(Cfg(pm, t, Bhv(0, 1, 1, "STOP"), FALSE, 0), CallerCctx("LZ4", 5, 2),
          CallerDctx(2), FALSE)
        : pm \in {"COMP", "BALANCED"}, t \in Tradeoffs }
    \cup
    { Run(Cfg("COMP", Rat(1, 2), Bhv(0, 1, 1, "STOP"), FALSE, 1), CallerCctx("LZ4", 5, 2),
          CallerDctx(2), TRUE),
      Run(Cfg("DECOMP", Rat(1, 1), Bhv(0, 1, 1, "STOP"), FALSE, 1), CallerCctx("LZ4", 5, 2),
          CallerDctx(2), TRUE) }

ThreadInit == InitOver(ThreadRuns)

ThreadSpec == ThreadInit /\ [][Next]_vars

\* thread pools of different sizes on the two sides, or no decompression context at all,
\* under every perf_mode, with and without the caller's parameters as a hint; and a
\* large pool on both sides under every perf_mode
PoolRuns ==
    { Run(Cfg(pm, Rat(1, 2), Bhv(0, 0, 1, "STOP"), hint, 0), CallerCctx("LZ4", 5, ct.c),
          IF ct.d = 0 THEN NoDctx ELSE CallerDctx(ct.d), FALSE)
        : pm \in PerfModes, hint \in BOOLEAN,
          ct \in {[c |-> 1, d |-> 3], [c |-> 3, d |-> 1], [c |-> 2, d |-> 0]} }
    \cup
    { Run(Cfg(pm, Rat(1, 2), Bhv(0, 0, 0, "STOP"), FALSE, 0), CallerCctx("LZ4", 5, LargePool),
          CallerDctx(LargePool), FALSE) : pm \in PerfModes }

PoolInit == InitOver(PoolRuns)

PoolSpec == PoolInit /\ [][Next]_vars

\* the tradeoffs of the three bands and the two band edges
BandTradeoffs == Tradeoffs \cup {Rat(1, 3), Rat(2, 3)}

\* every perf_mode at every band tradeoff; the caller's ZSTD as a hint in the two lower
\* bands; and one run with model files and inference on the first chunk
BandRuns ==
    { Run(Cfg(pm, t, Bhv(0, 0, 0, "STOP"), FALSE, 0), CallerCctx("LZ4", 5, 1), NoDctx, FALSE)
        : pm \in PerfModes, t \in BandTradeoffs }
    \cup
    { Run(Cfg("COMP", t, Bhv(0, 0, 1, "STOP"), TRUE, 0), CallerCctx("ZSTD", 5, 1), NoDctx,
          FALSE) : t \in {Rat(0, 1), Rat(1, 2)} }
    \cup
    { Run(Cfg("COMP", Rat(0, 1), Bhv(0, 0, 0, "STOP"), FALSE, 1), CallerCctx("LZ4", 5, 1),
          NoDctx, TRUE) }

BandInit == InitOver(BandRuns)

BandSpec == BandInit /\ [][Next]_vars

\* Scenario A: tradeoff 0.9, COMP, behaviour {0, 5, 1, STOP}, no hint, chunks of typesize 4
ScenarioA == Cfg("COMP", Rat(9, 10), Bhv(0, 5, 1, "STOP"), FALSE, 0)

ScenarioRuns == { Run(ScenarioA, CallerCctx("LZ4", 5, 1), NoDctx, FALSE) }

ScenarioInit == InitOver(ScenarioRuns)

ScenarioSpec == ScenarioInit /\ [][Next]_vars

\* one wait before each readapt; the caller's blocksize is automatic (0), below the
\* chunk size or above it, with and without hint; one run has a decompression context
\* and two threads, one has model files and inference on every chunk; and two waits
\* before each readapt under every repeat_mode, with and without softs, hards and hint
WaitRuns ==
    { Run(Cfg("COMP", Rat(1, 2), Bhv(1, 1, 1, "STOP"), hint, 0),
          [CallerCctx("LZ4", 5, 1) EXCEPT !.blocksize = bs], NoDctx, FALSE)
        : hint \in BOOLEAN, bs \in {0, 2048, 8192} }
    \cup
    { Run(Cfg("BALANCED", Rat(1, 2), Bhv(1, 0, 1, "STOP"), TRUE, 0), CallerCctx("LZ4", 5, 2),
          CallerDctx(2), FALSE),
      Run(Cfg("COMP", Rat(1, 2), Bhv(1, 0, 1, "STOP"), TRUE, -1), CallerCctx("LZ4", 5, 1),
          NoDctx, TRUE) }
    \cup
    { Run(Cfg("COMP", Rat(0, 1), Bhv(2, nsofts, nhards, rm), hint, 0), CallerCctx("LZ4", 5, 1),
          NoDctx, FALSE)
        : nsofts \in 0..1, nhards \in 0..1, rm \in RepeatModes, hint \in BOOLEAN }

WaitInit == InitOver(WaitRuns)

WaitSpec == WaitInit /\ [][Next]_vars

\* what the two variables can hold: unset, a supported mode or an unsupported word; unset
\* or a tradeoff within [0, 1]
Environments ==
    [BTUNE_PERF_MODE : {"unset", "COMP", "DECOMP", "BALANCED", "FAST"},
     BTUNE_TRADEOFF : {<<>>, <<Rat(1, 1)>>},
     BTUNE_TRACE : {FALSE},
     compressors : {AllCompressors}]

\* every configured perf_mode, AUTO included, one thread
EnvRuns ==
    { Run(Cfg(pm, Rat(1, 2), Bhv(0, 0, 1, "STOP"), FALSE, 0), CallerCctx("LZ4", 5, 1),
          NoDctx, FALSE)
        : pm \in PerfModes \cup {"AUTO"} }

EnvInit ==
    \E r \in EnvRuns, env \in Environments : InitFrom(r.u, env, r.c, r.d, r.models)

EnvSpec == EnvInit /\ [][Next]_vars

\* one process that creates, frees and creates tuners again while compressing
ProcessRuns ==
    { Run(Cfg("COMP", Rat(0, 1), Bhv(0, 0, 1, "STOP"), hint, 0), CallerCctx("LZ4", 5, 1),
          NoDctx, FALSE) : hint \in BOOLEAN }

ProcessInit == InitOver(ProcessRuns)

ProcessSpec == ProcessInit /\ [][ProcessNext]_vars

\* BTUNE_TRACE set; behaviours that stop, repeat the soft readapts or repeat all
TraceRuns ==
    { Run(Cfg("COMP", Rat(1, 2), Bhv(1, 1, nhards, rm), hint, 0), CallerCctx("LZ4", 5, 1),
          NoDctx, FALSE)
        : nhards \in 0..1, rm \in RepeatModes, hint \in BOOLEAN }

TraceInit ==
    \E r \in TraceRuns :
        InitFrom(r.u, [NoEnv EXCEPT !.BTUNE_TRACE = TRUE], r.c, r.d, r.models)

TraceSpec == TraceInit /\ [][Next]_vars

\* model files present and use_inference = k > 0: inference on the first k chunks
InferRuns ==
    { Run(Cfg(pm, Rat(1, 2), Bhv(0, 0, 1, "STOP"), hint, k), CallerCctx("LZ4", 5, 1),
          NoDctx, TRUE)
        : pm \in {"COMP", "DECOMP"}, hint \in BOOLEAN, k \in 1..MaxInference }

InferInit == InitOver(InferRuns)

InferSpec == InferInit /\ [][Next]_vars

\* builds of the library with and without zlib and zstd; searches below and inside the
\* band that only tries ZSTD and ZLIB, with and without hint, and runs with inference
Builds == { {"blosclz", "lz4", "lz4hc"} \cup optional : optional \in SUBSET {"zlib", "zstd"} }

BuildRuns ==
    { Run(Cfg("COMP", t, Bhv(0, 1, 1, "STOP"), hint, k), CallerCctx("LZ4", 5, 1),
          NoDctx, k > 0)
        : t \in {Rat(1, 2), Rat(1, 1)}, hint \in BOOLEAN, k \in 0..1 }

BuildInit ==
    \E r \in BuildRuns, all_codecs \in Builds :
        InitFrom(r.u, [NoEnv EXCEPT !.compressors = all_codecs], r.c, r.d, r.models)

BuildSpec == BuildInit /\ [][Next]_vars

\* the modes that measure dtime, with a decompression context of the caller or without
FaultRuns ==
    { Run(Cfg(pm, Rat(1, 2), Bhv(0, 0, 1, "STOP"), FALSE, 0), CallerCctx("LZ4", 5, 1), d,
          FALSE)
        : pm \in {"DECOMP", "BALANCED"}, d \in {NoDctx, CallerDctx(1)} }

FaultInit == InitOver(FaultRuns)

FaultSpec == FaultInit /\ [][FaultNext]_vars

\* a chunk compressed while other work holds the cores: it takes as long as the default
\* measure, whatever the number of threads
ContendedChunk(c) == [ctime |-> DefaultMeasure, cbytes |-> c.sourcesize \div 4, dtime |-> 1]

\* btune_update after such a chunk, on a pool larger than MAX_STATE_THREADS
UpdateContended ==
    /\ phase = "update"
    /\ cctx.nthreads > MAX_STATE_THREADS
    /\ \E k \in {ContendedChunk(cctx)} :
         \E b \in {btune_update(cctx, btune, k.ctime, k.cbytes, k.dtime)} :
             /\ CountersInBound(b)
             /\ btune' = b
             /\ all_special' = (all_special /\ IsSpecial(cctx, k.cbytes))
             /\ trace_lines' = TraceRows(btune, environ)
             /\ winner' = IF btune.state = "STOP" THEN winner
                          ELSE Winner(cctx, k.cbytes,
                                      Improved(btune, cctx, k.ctime, k.cbytes,
                                               IF MeasuresDtime(btune) THEN k.dtime ELSE 0))
    /\ phase' = "next"
    /\ dfailed' = FALSE
    /\ UNCHANGED <<user, environ, cctx, dctx, best_before, predicted, best_init,
                   registrations, probe>>

LongNext == NextCparams \/ Update \/ UpdateContended

\* a pool larger than MAX_STATE_THREADS on both sides, tuned for compression and for both
LongRuns ==
    { Run(Cfg(pm, Rat(1, 2), Bhv(0, 0, 1, "STOP"), FALSE, 0), CallerCctx("LZ4", 5, LargePool),
          CallerDctx(LargePool), FALSE) : pm \in {"COMP", "BALANCED"} }

LongInit == InitOver(LongRuns)

LongSpec == LongInit /\ [][LongNext]_vars

\* the cycle of readapts: every behaviour with and without the caller's parameters as a
\* hint, and two behaviours with two soft readapts for each hard one
CycleRuns ==
    { Run(Cfg("COMP", Rat(0, 1), bh, hint, 0), CallerCctx("LZ4", 5, 1), NoDctx, FALSE)
        : bh \in Behaviours, hint \in BOOLEAN }
    \cup
    { Run(Cfg("COMP", Rat(0, 1), Bhv(nwaits, 2, 1, "STOP"), FALSE, 0),
          CallerCctx("LZ4", 5, 1), NoDctx, FALSE) : nwaits \in 0..1 }

CycleInit == InitOver(CycleRuns)

CycleSpec == CycleInit /\ [][Next]_vars

\* the phases of a readapt: one or two threads on each side under every perf_mode, two
\* hard readapts with a soft one in between; three threads with the caller's parameters
\* as a hint and in BALANCED mode; and one run with model files and inference on the
\* first chunk
PhaseRuns ==
    { Run(Cfg(pm, Rat(1, 2), Bhv(0, 1, 2, "STOP"), FALSE, 0), CallerCctx("LZ4", 5, n),
          CallerDctx(n), FALSE)
        : pm \in {"COMP", "DECOMP", "BALANCED"}, n \in 1..2 }
    \cup
    { Run(Cfg("COMP", Rat(1, 2), Bhv(0, 1, 1, "STOP"), TRUE, 0), CallerCctx("LZ4", 5, 3),
          CallerDctx(3), FALSE),
      Run(Cfg("BALANCED", Rat(1, 2), Bhv(0, 1, 1, "STOP"), FALSE, 0), CallerCctx("LZ4", 5, 3),
          CallerDctx(3), FALSE) }
    \cup
    { Run(Cfg("COMP", Rat(1, 2), Bhv(0, 1, 1, "STOP"), FALSE, 1), CallerCctx("LZ4", 5, 2),
          CallerDctx(2), TRUE) }

PhaseInit == InitOver(PhaseRuns)

PhaseSpec == PhaseInit /\ [][Next]_vars

----------------------------------------------------------------------------
(* entropy_probe.c: get_cratio, one iteration of its main loop per step.    *)
(* Positions are offsets from ibase.  A buffer is given by its length and   *)
(* the rule that makes its bytes.                                           *)

MAX_COPY == 32
MAX_DISTANCE == 8191
MAX_FARDISTANCE == 65535 + MAX_DISTANCE - 1
HASH_LOG == 14

\* lengths of the buffers probed: shorter than the 12 bytes the scan leaves out, a few
\* hundred bytes, and longer than the hash window
ShortLen == 8
MidLen == 300
LongLen == 20000

\* the byte at offset i of buffer buf
Byte(buf, i) ==
    CASE buf.kind = "zeros" -> 0
      [] buf.kind = "ramp" -> i % 256
      [] buf.kind = "steps" -> (i \div 16) % 256
      [] OTHER -> (i * i + 7 * i + 3) % 251

\* BLOSCLZ_READU32 as the four bytes read
Read4(buf, i) == <<Byte(buf, i), Byte(buf, i + 1), Byte(buf, i + 2), Byte(buf, i + 3)>>

\* HASH_FUNCTION on a little-endian word: the top HASH_LOG bits of the low 32 bits of
\* seq * 2654435761 (0x9E3779B1), multiplied byte by byte
Hash(w) ==
    LET c0 == w[1] * 177
        c1 == w[1] * 121 + w[2] * 177 + (c0 \div 256)
        c2 == w[1] * 55 + w[2] * 121 + w[3] * 177 + (c1 \div 256)
        c3 == w[1] * 158 + w[2] * 55 + w[3] * 121 + w[4] * 177 + (c2 \div 256)
        high16 == (c3 % 256) * 256 + (c2 % 256)
    IN  high16 \div (2 ^ (16 - HASH_LOG))

\* htab[h], all entries being 0 after the memset
HtabAt(htab, h) == IF h \in DOMAIN htab THEN htab[h] ELSE 0

HtabSet(htab, h, v) == [x \in DOMAIN htab \cup {h} |-> IF x = h THEN v ELSE htab[x]]

\* the least element of a non-empty set of naturals
Least(S) == CHOOSE m \in S : \A y \in S : m <= y

\* get_run: ip advanced over the bytes at ref that equal ip[-1], not beyond ip_bound;
\* the 8-byte strides and the remainder loop stop at the same byte
get_run(buf, ip, ip_bound, ref) ==
    LET x == Byte(buf, ip - 1)
        stops == { j \in 0..(ip_bound - ip - 1) : Byte(buf, ref + j) # x }
    IN  IF ip >= ip_bound THEN ip
        ELSE IF stops = {} THEN ip_bound ELSE ip + Least(stops)

\* get_match: ip advanced over the bytes that equal those at ref and one past the first
\* that differs (*ref++ == *ip++), not beyond ip_bound
get_match(buf, ip, ip_bound, ref) ==
    LET stops == { j \in 0..(ip_bound - ip - 1) : Byte(buf, ref + j) # Byte(buf, ip + j) }
    IN  IF ip >= ip_bound THEN ip
        ELSE IF stops = {} THEN ip_bound ELSE ip + Least(stops) + 1

get_run_or_match(buf, ip, ip_bound, ref, run) ==
    IF run THEN get_run(buf, ip, ip_bound, ref) ELSE get_match(buf, ip, ip_bound, ref)

\* uint16_t limit = (maxlen > hashlen) ? hashlen : maxlen
ScanLimit(maxlen) == IF maxlen > 2 ^ HASH_LOG THEN 2 ^ HASH_LOG ELSE maxlen

\* the locals of get_cratio before the main loop
get_cratio_entry(buf, minlen, ipshift) ==
    [pc |-> "scan", buf |-> buf, minlen |-> minlen, ipshift |-> ipshift,
     ip |-> 0, oc |-> 5, copy |-> 4, htab |-> << >>,
     ip_bound |-> ScanLimit(buf.len) - 1, ip_limit |-> ScanLimit(buf.len) - 12,
     cratio |-> Rat(0, 1)]

\* LITERAL2
Literal2(p, anchor, htab) ==
    LET copy == p.copy + 1
    IN  [p EXCEPT !.htab = htab,
                  !.ip = anchor + 1,
                  !.copy = IF copy = MAX_COPY THEN 0 ELSE copy,
                  !.oc = IF copy = MAX_COPY THEN @ + 2 ELSE @ + 1]

\* a match token that costs a byte for each byte it covers
MatchCost_PerByte(len, distance) ==
    len + (IF distance < MAX_DISTANCE THEN 2 ELSE 4)

\* the cost of a match of length len: ((len - 7) / 255) + 1 more bytes from 7 on
MatchCost(len, distance) ==
    (IF len >= 7 THEN ((len - 7) \div 255) + 1 ELSE 0)
        + (IF distance < MAX_DISTANCE THEN 2 ELSE 4)

\* one iteration of the main loop
ScanStep(p) ==
    LET anchor == p.ip
        hval == Hash(Read4(p.buf, p.ip))
        ref == HtabAt(p.htab, hval)
        distance == anchor - ref
        htab == HtabSet(p.htab, hval, anchor)
    IN  IF distance = 0 \/ distance >= MAX_FARDISTANCE
        THEN Literal2(p, anchor, htab)
        ELSE IF Read4(p.buf, ref) # Read4(p.buf, p.ip)
        THEN Literal2(p, anchor, htab)
        ELSE LET biased == distance - 1
                 ip == get_run_or_match(p.buf, anchor + 4, p.ip_bound, ref + 4, biased = 0)
                         - p.ipshift
                 len == ip - anchor
             IN  IF len < p.minlen
                 THEN Literal2(p, anchor, htab)
                 ELSE [p EXCEPT !.oc = (IF p.copy = 0 THEN @ - 1 ELSE @)
                                         + MatchCost(len, biased) + 1,
                                !.copy = 0,
                                !.htab = HtabSet(htab, Hash(Read4(p.buf, ip)), ip),
                                !.ip = ip + 2]

\* the return statement with input_len in place of ic
ScanResult_InputLen(p) == [p EXCEPT !.pc = "done", !.cratio = Rat(p.buf.len, p.oc)]

\* ic / oc, with ic = ip - ibase
ScanResult(p) == [p EXCEPT !.pc = "done", !.cratio = Rat(p.ip, p.oc)]

ProbeScan ==
    /\ probe.pc = "scan"
    /\ probe.ip < probe.ip_limit
    /\ probe' = ScanStep(probe)
    /\ UNCHANGED <<user, environ, btune, cctx, dctx, phase, winner, best_before,
                   predicted, best_init, all_special, registrations, trace_lines,
                   dfailed>>

ProbeReturn ==
    /\ probe.pc = "scan"
    /\ probe.ip >= probe.ip_limit
    /\ probe' = ScanResult(probe)
    /\ UNCHANGED <<user, environ, btune, cctx, dctx, phase, winner, best_before,
                   predicted, best_init, all_special, registrations, trace_lines,
                   dfailed>>

ProbeNext == ProbeScan \/ ProbeReturn

\* the buffers probed: every rule at the lengths up to 1 KiB, and the rules with long
\* matches beyond the hash window
ProbeBuffers ==
    { [kind |-> k, len |-> n] : k \in {"zeros", "ramp", "steps", "noise"},
                                n \in {ShortLen, MidLen, 1024} }
    \cup { [kind |-> k, len |-> LongLen] : k \in {"zeros", "ramp", "steps"} }

\* get_cratio(input, input_len, 3, 3), as the encoder calls it
ProbeInit ==
    /\ TunerInit(Cfg("COMP", Rat(1, 2), Bhv(0, 0, 1, "STOP"), FALSE, 0),
                 NoEnv, CallerCctx("LZ4", 5, 1), NoDctx, FALSE)
    /\ \E buf \in ProbeBuffers : probe = get_cratio_entry(buf, 3, 3)

ProbeSpec == ProbeInit /\ [][ProbeNext]_vars

----------------------------------------------------------------------------
(* Claims *)

\* the fields of the tuner that claim C1 lists: state, best, counters, codec and level lists
TunerFields(b) ==
    <<b.state, b.best, b.nhards, b.nsofts, b.nwaitings, b.codecs, b.filters,
      b.clevels, b.clevel_index>>

\* the compression parameters the tuner writes into the contexts
ContextParams ==
    <<cctx.compcode, cctx.filter, cctx.splitmode, cctx.clevel, cctx.blocksize,
      cctx.typesize, cctx.new_nthreads, dctx.new_nthreads>>

\* C1: once the state is STOP, a next_cparams or update call leaves the state STOP and
\* changes neither a listed field of the tuner nor a compression parameter of the contexts
C1_StopIsNoOp ==
    [][btune.state = "STOP" =>
          /\ TunerFields(btune') = TunerFields(btune)
          /\ ContextParams' = ContextParams]_vars

\* C2, as stated: whatever the behaviour and the repeat_mode, the state is eventually STOP
C2_EveryModeReachesStop == <>(btune.state = "STOP")

\* no hint, a repeat_mode that repeats, and soft readapts to repeat
RepeatsSofts ==
    /\ ~user.cparams_hint
    /\ user.behaviour.repeat_mode # "STOP"
    /\ user.behaviour.nsofts_before_hard > 0

\* C2, amended: with repeat_mode STOP and inference not on every chunk, the state is
\* eventually STOP, whatever nwaits_before_readapt, nsofts_before_hard, nhards_before_stop;
\* with a repeat_mode that repeats and nsofts_before_hard > 0 the state is never STOP
C2_StopModeReachesStop ==
    /\ <>(\/ btune.state = "STOP"
          \/ user.behaviour.repeat_mode # "STOP"
          \/ user.use_inference = -1)
    /\ [](RepeatsSofts => btune.state # "STOP")

C2_Witness ==
    /\ user.behaviour = Bhv(1, 1, 1, "STOP")
    /\ btune.state = "STOP"
    /\ btune.nsofts > 0
    /\ btune.nwaitings > 0

NoHintStopMode == ~user.cparams_hint /\ user.behaviour.repeat_mode = "STOP"

InstalledParams ==
    <<cctx.compcode, cctx.filter, cctx.splitmode, cctx.clevel, cctx.new_nthreads,
      IF dctx = NoDctx THEN btune.nthreads_decomp ELSE dctx.new_nthreads>>

BestParams ==
    <<btune.best.compcode, btune.best.filter, btune.best.splitmode, btune.best.clevel,
      btune.best.nthreads_comp, btune.best.nthreads_decomp>>

\* C4: once the tuner has stopped, the chunk about to be compressed (next_cparams has
\* returned, update is due) gets the codec, filter, splitmode, clevel and thread counts
\* of best
C4_StoppedCompressesWithBest ==
    (btune.state = "STOP" /\ phase = "update") => InstalledParams = BestParams

\* the update step just taken evaluated a special chunk (aux_cparams keeps sourcesize/cbytes)
SpecialStep ==
    /\ phase = "update"
    /\ btune.state # "STOP"
    /\ IsSpecial(cctx, btune'.aux_cparams.cratio.den)

SpecialStepKeepsBest ==
    SpecialStep =>
        /\ winner' = "S"
        /\ Params(btune'.best) = Params(btune.best)
        /\ Measures(btune'.best) = Measures(btune.best)

NoPredictionSoFar(b) == \A p \in Predictions : b.histogram[p] = 0

\* C5, as stated: a special chunk is labelled S and leaves the parameters and the
\* measurements of best alone in every state, and after chunks that were all special
\* best has the parameters btune_init gave it
C5_SpecialNeverBest ==
    [][/\ SpecialStepKeepsBest
       /\ (all_special' /\ winner' = "S")
             => Params(btune'.best) = Params(best_init)]_vars

\* C5, amended: a special chunk is labelled S and leaves the parameters and the
\* measurements of best alone in every state, and after chunks that were all special,
\* when no model prediction was applied, best has the parameters btune_init gave it
C5_SpecialNeverBestUnlessPredicted ==
    [][/\ SpecialStepKeepsBest
       /\ (all_special' /\ winner' = "S" /\ NoPredictionSoFar(btune'))
             => Params(btune'.best) = Params(best_init)]_vars

C5_Witness ==
    /\ phase = "next"
    /\ winner = "S"
    /\ all_special
    /\ btune.state = "THREADS"
    /\ btune.aux_index > 1

\* C6, as stated: after a step that update did not judge an improvement, every field of
\* best is as it was before the preceding next_cparams
C6_NotImprovedKeepsBest ==
    (phase = "next" /\ winner \in {"-", "S"}) => btune.best = best_before

\* C6, amended: after a step that update did not judge an improvement, the parameters and
\* the measurements of best are as they were before the preceding next_cparams, but for
\* the clevel when that next_cparams applied a model prediction (the flags may differ)
C6_NotImprovedKeepsParamsAndMeasures ==
    (phase = "next" /\ winner \in {"-", "S"}) =>
        /\ Measures(btune.best) = Measures(best_before)
        /\ IF predicted
           THEN Params([btune.best EXCEPT !.clevel = best_before.clevel]) = Params(best_before)
           ELSE Params(btune.best) = Params(best_before)

C6_Witness ==
    /\ phase = "next"
    /\ winner = "-"
    /\ Flags(btune.best) # Flags(best_before)
    /\ Params(btune.best) = Params(best_before)

\* the bands as the documentation gives them
HasImprovedByBand(t, score_coef, cratio_coef) ==
    LET cr(n, d) == RatLt(Rat(n, d), cratio_coef)
        sc(n, d) == RatLt(Rat(n, d), score_coef)
    IN  IF RatLeq(t, Rat(1, 3))
        THEN \/ cr(1, 1) /\ sc(1, 1)
             \/ cr(1, 2) /\ sc(2, 1)
             \/ cr(67, 100) /\ sc(13, 10)
             \/ cr(2, 1) /\ sc(7, 10)
        ELSE IF RatLeq(t, Rat(2, 3))
             THEN \/ cr(1, 1) /\ sc(1, 1)
                  \/ cr(11, 10) /\ sc(8, 10)
                  \/ cr(13, 10) /\ sc(5, 10)
             ELSE cr(1, 1)

Coefs == {Rat(1, 2), Rat(3, 4), Rat(9, 10), Rat(1, 1), Rat(21, 20), Rat(3, 2), Rat(3, 1)}

\* C7: for the tradeoff of the run and every pair of coefficients, has_improved answers
\* with the formula of the band the tradeoff selects
C7_AnswersByBand ==
    \A score_coef \in Coefs, cratio_coef \in Coefs :
        has_improved(btune, score_coef, cratio_coef)
            = HasImprovedByBand(btune.config.tradeoff, score_coef, cratio_coef)

HcrRun == user.tradeoff = Rat(1, 1)

\* C8, as stated: with tradeoff 1.0 no update lowers best.cratio, in any state
C8_CratioNeverDecreases ==
    [][HcrRun => RatLeq(btune.best.cratio, btune'.best.cratio)]_vars

\* C8, amended: with tradeoff 1.0 no update outside the THREADS state lowers best.cratio
C8_CratioNeverDecreasesOutsideThreads ==
    [][(HcrRun /\ btune.state # "THREADS")
          => RatLeq(btune.best.cratio, btune'.best.cratio)]_vars

C8_Witness ==
    /\ HcrRun
    /\ phase = "next"
    /\ winner = "W"
    /\ btune.state = "CLEVEL"
    /\ RatLt(best_before.cratio, btune.best.cratio)
    /\ RatLt(Rat(1, 1), best_before.cratio)

\* the update step just taken accepted the tried tuple as the new best
AcceptStep == phase = "update" /\ btune.state # "STOP" /\ winner' = "W"

\* C9, as stated: the score of an accepted tuple is not above the score of the best it replaces
C9_AcceptedScoreNotHigher ==
    [][AcceptStep => RatLeq(btune'.best.score, btune.best.score)]_vars

\* C9, amended: an accepted tuple has a lower score or a higher cratio than the best it
\* replaces; in the THREADS state it has a lower time on the side being tuned
C9_AcceptedBetterScoreOrCratio ==
    [][AcceptStep =>
          IF btune.state = "THREADS"
          THEN IF btune.threads_for_comp
               THEN btune'.best.ctime < btune.best.ctime
               ELSE btune'.best.dtime < btune.best.dtime
          ELSE \/ RatLt(btune'.best.score, btune.best.score)
               \/ RatLt(btune.best.cratio, btune'.best.cratio)]_vars

C9_Witness ==
    /\ phase = "next"
    /\ winner = "W"
    /\ RatLt(best_before.score, btune.best.score)
    /\ RatLt(best_before.cratio, btune.best.cratio)

\* C10: after every update best.clevel is within 1..9
C10_BestClevelInRange ==
    (phase = "next" /\ winner # "") => btune.best.clevel \in 1..9

\* a thread count within [1, max_threads]
ThreadsInRange(n) == MIN_THREADS <= n /\ n <= btune.max_threads

\* C11: in every reachable state best.nthreads_comp and best.nthreads_decomp are within
\* [1, max_threads], and so are the thread counts next_cparams has written to the contexts
C11_ThreadCountsInRange ==
    /\ ThreadsInRange(btune.best.nthreads_comp)
    /\ ThreadsInRange(btune.best.nthreads_decomp)
    /\ ThreadsInRange(cctx.new_nthreads)
    /\ dctx # NoDctx => ThreadsInRange(dctx.new_nthreads)

\* a THREADS proposal was accepted: best holds a thread count the caller did not configure
C11_Witness ==
    /\ dctx # NoDctx
    /\ btune.max_threads = 3
    /\ phase = "update"
    /\ btune.state = "THREADS"
    /\ btune.best.nthreads_comp = 2
    /\ cctx.new_nthreads = 3

\* C12: DECOMP never varies the compression threads and COMP never varies the
\* decompression threads; with BALANCED the THREADS phase starts on the compression
\* threads and has switched to the decompression threads when it moves to CLEVEL
C12_ThreadsVariedByPerfMode ==
    [][/\ btune.config.perf_mode = "DECOMP" =>
            /\ ~btune'.threads_for_comp
            /\ btune'.best.nthreads_comp = btune.best.nthreads_comp
            /\ cctx'.new_nthreads = cctx.new_nthreads
       /\ btune.config.perf_mode = "COMP" =>
            /\ btune'.threads_for_comp
            /\ btune'.best.nthreads_decomp = btune.best.nthreads_decomp
            /\ dctx'.new_nthreads = dctx.new_nthreads
       /\ btune.config.perf_mode = "BALANCED" =>
            /\ (btune.state = "CODEC_FILTER" /\ btune'.state = "THREADS")
                    => btune'.threads_for_comp
            /\ (btune.state = "THREADS" /\ btune'.state = "CLEVEL")
                    => ~btune.threads_for_comp]_vars

\* the codecs of the candidate list, as a set
CodecSet == { btune.codecs[i] : i \in 1..Len(btune.codecs) }

C14_HcrInstalledClevelAtMostSix ==
    (/\ RatLt(Rat(2, 3), btune.config.tradeoff)
     /\ phase = "update"
     /\ btune.state # "STOP") => cctx.clevel <= 6

\* the update of the twelfth pair of a Scenario A run: the first sweep of CODEC_FILTER
\* proposes one combination per pair and counts them in aux_index
TwelfthUpdate ==
    /\ user = ScenarioA
    /\ phase = "update"
    /\ btune.state = "CODEC_FILTER"
    /\ btune.nhards = 0
    /\ btune.nsofts = 0
    /\ btune.aux_index = 12

\* C15, as stated: in Scenario A the state is STOP after 12 next_cparams/update pairs
C15_StopAfterTwelvePairs ==
    [][TwelfthUpdate => btune'.state = "STOP"]_vars

\* C15, amended: in Scenario A the 12 pairs are the first CODEC_FILTER sweep, after which
\* the state is CLEVEL; the state is STOP only once two hard readapts and five soft
\* readapts are completed
C15_ClevelAfterTwelvePairs ==
    [][/\ TwelfthUpdate => btune'.state = "CLEVEL"
       /\ (user = ScenarioA /\ btune.state = "CODEC_FILTER" /\ btune.nhards = 0)
             => btune'.aux_index = IF phase = "next" THEN btune.aux_index + 1
                                   ELSE IF btune.aux_index = 12 THEN 0
                                   ELSE btune.aux_index
       /\ (user = ScenarioA /\ btune'.state = "STOP")
             => btune'.nhards = 2 /\ btune'.nsofts = 5]_vars

\* a Scenario A run that has reached STOP
C15_Witness ==
    /\ user = ScenarioA
    /\ btune.state = "STOP"
    /\ btune.nhards = 2
    /\ btune.best.compcode \in {"ZSTD", "ZLIB"}
    /\ winner # ""

\* the eight parameters the contexts hold for the next compression
InstalledAll ==
    <<cctx.compcode, cctx.filter, cctx.splitmode, cctx.clevel, cctx.blocksize,
      cctx.typesize, cctx.new_nthreads,
      IF dctx = NoDctx THEN btune.nthreads_decomp ELSE dctx.new_nthreads>>

\* next_cparams has just run in the WAITING state
WaitingProposal == phase = "update" /\ btune.state = "WAITING"

\* C16, as stated: what next_cparams writes to the contexts in WAITING (codec, filter,
\* splitmode, clevel, blocksize, shufflesize, thread counts) is exactly the current best
C16_WaitingInstallsBest ==
    WaitingProposal => InstalledAll = Params(btune.best)

\* the smaller of two sizes
MinSize(a, b) == IF a < b THEN a ELSE b

\* C16, amended: in WAITING the codec, filter, splitmode, clevel, shufflesize and thread
\* counts written are those of the current best; the blocksize is that of best, or the
\* one the context already had when best holds 0, and never more than the chunk size
C16_WaitingInstallsBestUpToBlocksize ==
    [][(phase = "next" /\ btune.state = "WAITING") =>
         /\ [i \in {1, 2, 3, 4, 6, 7, 8} |-> InstalledAll'[i]]
              = [i \in {1, 2, 3, 4, 6, 7, 8} |-> Params(btune'.best)[i]]
         /\ cctx'.blocksize =
              MinSize(IF btune'.best.blocksize # 0 THEN btune'.best.blocksize
                      ELSE cctx.blocksize, cctx.sourcesize)]_vars

\* a WAITING proposal after a search that replaced the initial best
C16_Witness ==
    /\ WaitingProposal
    /\ ~user.cparams_hint
    /\ Params(btune.best) # Params(best_init)
    /\ btune.nwaitings = 1
    /\ cctx.compcode = btune.best.compcode

ReadaptFollowsWait(b) ==
    LET bh == b.config.behaviour
    IN  \/ /\ \/ bh.nsofts_before_hard = 0
               \/ (b.nsofts # 0 /\ b.nsofts % bh.nsofts_before_hard = 0)
            /\ ~(b.is_repeating /\ bh.repeat_mode # "REPEAT_ALL")
            /\ bh.nhards_before_stop > minimum_hards(b)
        \/ /\ bh.nsofts_before_hard > 0
            /\ ~(b.is_repeating /\ bh.repeat_mode = "STOP")

C19_RegisteredOnce == registrations = 1

\* C20, as stated: with BTUNE_TRACE set, every update made while the state is not STOP
\* prints exactly one row, whether the readapts are the initial ones or repeated ones
C20_OneRowPerUpdate ==
    [][(phase = "update" /\ environ.BTUNE_TRACE /\ btune.state # "STOP") =>
         trace_lines' = 1]_vars

\* C20, amended: with BTUNE_TRACE set, every update made while the state is not STOP
\* prints exactly one row while is_repeating is false (the initial readapts) and none
\* once is_repeating is set
C20_OneRowPerInitialUpdate ==
    [][(phase = "update" /\ environ.BTUNE_TRACE /\ btune.state # "STOP") =>
         trace_lines' = IF btune.is_repeating THEN 0 ELSE 1]_vars

\* an update of a repeated soft readapt has just run without printing
C20_Witness ==
    /\ environ.BTUNE_TRACE
    /\ phase = "next"
    /\ btune.is_repeating
    /\ btune.state = "CLEVEL"
    /\ btune.readapt_from = "SOFT"
    /\ btune.aux_index > 1
    /\ trace_lines = 0

\* C21: with use_inference = k > 0 and model files, inference_count starts at k and every
\* next_cparams call made while it is positive runs the model and counts one down (the
\* first k calls); the call that finds it at 0 computes the most predicted tuple, seeds
\* the lists with it and ends the inference phase; no later call predicts or changes the
\* lists, and update never touches the inference state
C21_InferenceFirstKThenSeedOnce ==
    [][/\ (phase = "next" /\ btune.inference_count > 0) =>
            /\ ~btune.inference_ended /\ ~btune'.inference_ended
            /\ btune'.inference_count = btune.inference_count - 1
       /\ (phase = "next" /\ btune.inference_count = 0 /\ ~btune.inference_ended) =>
            /\ btune'.inference_ended
            /\ btune'.inference_count = 0
            /\ predicted' = (MostPredicted(btune) # {})
            /\ predicted' =>
                  \E p \in MostPredicted(btune) :
                      /\ btune'.codecs = <<p.compcode>>
                      /\ btune'.filters = <<p.filter>>
       /\ (phase = "next" /\ btune.inference_ended) =>
            /\ btune'.inference_ended
            /\ btune'.inference_count = 0
            /\ ~predicted'
            /\ btune'.histogram = btune.histogram
            /\ btune'.codecs = btune.codecs
            /\ btune'.filters = btune.filters
            /\ btune'.clevels = btune.clevels
       /\ phase = "update" =>
            /\ btune'.inference_ended = btune.inference_ended
            /\ btune'.inference_count = btune.inference_count
            /\ btune'.histogram = btune.histogram]_vars

\* the sum of the histogram: the predictions the model has returned so far
PredictionsMade(b) ==
    LET RECURSIVE Sum(_)
        Sum(S) == IF S = {} THEN 0
                  ELSE LET p == CHOOSE q \in S : TRUE IN b.histogram[p] + Sum(S \ {p})
    IN  Sum(Predictions)

\* the fourth call of a run with use_inference = 3 has just seeded the search with ZSTD,
\* the most predicted codec of three predictions
C21_Witness ==
    /\ user.use_inference = 3
    /\ phase = "update"
    /\ btune.inference_ended
    /\ predicted
    /\ PredictionsMade(btune) = 3
    /\ btune.codecs = <<"ZSTD">>

\* the tuple the model returned to the call just made: the category counted
ReturnedBy(p) == btune'.histogram[p] > btune.histogram[p]

\* C22: a next_cparams call made while inference_count is positive and to which the
\* model returns a prediction writes exactly the predicted codec, filter, clevel and
\* splitmode to the context
C22_PredictionInstalled ==
    [][(phase = "next" /\ btune.inference_count > 0) =>
         \A p \in Predictions :
             ReturnedBy(p) =>
                 /\ cctx'.compcode = p.compcode
                 /\ cctx'.filter = p.filter
                 /\ cctx'.clevel = p.clevel
                 /\ cctx'.splitmode = p.splitmode]_vars

\* C23: an update whose decompression failed does not replace best
C23_FailedDecompressionKeepsBest ==
    [][(phase = "update" /\ dfailed') => btune'.best = btune.best]_vars

\* the bytes the scan covered when it stopped, ip - ibase
ScannedBytes(p) == p.ip

RatSame(a, b) == a.num * b.den = b.num * a.den

\* C24 (as stated): for a buffer of any length, the ratio returned is input_len divided
\* by the output counter of the scan
C24_RatioIsInputLenOverCounter ==
    probe.pc = "done" => RatSame(probe.cratio, Rat(probe.buf.len, probe.oc))

\* C24 (amended): the ratio returned is the number of bytes the scan covered divided by
\* the output counter; the scan stops within the last 12 bytes of the buffer or of the
\* 2^14-byte hash window, whichever is shorter, and at byte 0 when that leaves nothing
C24_RatioIsScannedOverCounter ==
    probe.pc = "done" =>
        /\ RatSame(probe.cratio, Rat(ScannedBytes(probe), probe.oc))
        /\ probe.oc >= 5
        /\ ScannedBytes(probe) <= ScanLimit(probe.buf.len)
        /\ ScannedBytes(probe) <= 2 ^ HASH_LOG
        /\ IF ScanLimit(probe.buf.len) > 12
           THEN ScannedBytes(probe) >= ScanLimit(probe.buf.len) - 12
           ELSE ScannedBytes(probe) = 0

\* a buffer longer than the hash window has been probed: the scan covered less than it
C24_Witness ==
    /\ probe.pc = "done"
    /\ probe.buf.len > 2 ^ HASH_LOG
    /\ ScannedBytes(probe) < probe.buf.len
    /\ probe.oc > 5

Ramp1K == [kind |-> "ramp", len |-> 1024]

\* C25 (as stated): on the 1024-byte buffer 0,1,...,255 repeated 4 times, with minlen 3
\* and ipshift 3, the ratio returned is within [1.0, 2.0]
C25_RampRatioBetweenOneAndTwo ==
    (probe.pc = "done" /\ probe.buf = Ramp1K /\ probe.minlen = 3 /\ probe.ipshift = 3) =>
        /\ RatLeq(Rat(1, 1), probe.cratio)
        /\ RatLeq(probe.cratio, Rat(2, 1))

\* C25 (amended): on that buffer the ratio returned is 1022/275, within [3.0, 4.0]
C25_RampRatioBetweenThreeAndFour ==
    (probe.pc = "done" /\ probe.buf = Ramp1K /\ probe.minlen = 3 /\ probe.ipshift = 3) =>
        /\ RatSame(probe.cratio, Rat(1022, 275))
        /\ RatLeq(Rat(3, 1), probe.cratio)
        /\ RatLeq(probe.cratio, Rat(4, 1))

\* the ramp buffer has been probed: 256 literals, then the repeats as matches
C25_Witness ==
    /\ probe.pc = "done"
    /\ probe.buf = Ramp1K
    /\ probe.minlen = 3 /\ probe.ipshift = 3
    /\ ScannedBytes(probe) = 1022
    /\ probe.oc = 275

\* the codec, filter and split mode of a set of parameters
Combination(cp) == <<cp.compcode, cp.filter, cp.splitmode>>

\* codecs[] x filters[] x {ALWAYS_SPLIT, NEVER_SPLIT}
AllCombinations(b) ==
    { <<b.codecs[i], b.filters[j], sp>> :
        i \in 1..Len(b.codecs), j \in 1..Len(b.filters),
        sp \in {"ALWAYS_SPLIT", "NEVER_SPLIT"} }

SweepLength(b) == Len(b.codecs) * Len(b.filters) * 2

\* the combinations in the order of the sweep: codec by codec, filter by filter, with
\* split and then without
SweepOrder(b) ==
    [i \in 1..SweepLength(b) |->
        <<b.codecs[((i - 1) \div (2 * Len(b.filters))) + 1],
          b.filters[(((i - 1) \div 2) % Len(b.filters)) + 1],
          IF (i - 1) % 2 = 0 THEN "ALWAYS_SPLIT" ELSE "NEVER_SPLIT">>]

SweepProposal ==
    phase = "next" /\ btune'.state = "CODEC_FILTER" /\ btune'.inference_ended

\* C26: once inference has ended the steps of a CODEC_FILTER phase are numbered from 0 by
\* aux_index; step i proposes the i-th combination of an order in which each combination
\* of codecs[] x filters[] x {ALWAYS_SPLIT, NEVER_SPLIT} stands exactly once; the update
\* of step i keeps the state when combinations are left and leaves CODEC_FILTER when
\* step i was the last, and every entry to CODEC_FILTER starts again at 0
C26_SweepProposesEachCombinationOnce ==
    [][/\ SweepProposal =>
            /\ btune.aux_index < SweepLength(btune')
            /\ btune'.aux_index = btune.aux_index + 1
            /\ Combination(btune'.aux_cparams) = SweepOrder(btune')[btune.aux_index + 1]
            /\ { SweepOrder(btune')[i] : i \in 1..SweepLength(btune') }
                   = AllCombinations(btune')
            /\ Cardinality(AllCombinations(btune')) = SweepLength(btune')
       /\ (phase = "update" /\ btune.state = "CODEC_FILTER" /\ btune.inference_ended) =>
            /\ btune'.codecs = btune.codecs
            /\ btune'.filters = btune.filters
            /\ IF btune.aux_index < SweepLength(btune)
               THEN btune'.state = "CODEC_FILTER" /\ btune'.aux_index = btune.aux_index
               ELSE /\ btune.aux_index = SweepLength(btune)
                    /\ btune'.state \in {"THREADS", "CLEVEL"}
       /\ (btune.state # "CODEC_FILTER" /\ btune'.state = "CODEC_FILTER") =>
            btune'.aux_index = 0
       /\ (phase = "next" /\ btune.state = "CODEC_FILTER" /\ ~btune.inference_ended) =>
            btune.aux_index = 0
      ]_vars

\* the last combination of a sweep of three filters and two codecs in the second hard
\* readapt has been proposed
C26_Witness ==
    /\ phase = "update"
    /\ btune.state = "CODEC_FILTER"
    /\ btune.inference_ended
    /\ btune.nhards = 1
    /\ Len(btune.codecs) = 2
    /\ btune.aux_index = SweepLength(btune)
    /\ Combination(btune.aux_cparams) = SweepOrder(btune)[SweepLength(btune)]

\* a readapt of the given kind is searching
InReadapt(b, kind) ==
    b.readapt_from = kind /\ b.state \in {"CODEC_FILTER", "THREADS", "CLEVEL"}

\* C27: in a hard readapt CODEC_FILTER is followed by THREADS, or by CLEVEL exactly when
\* max_threads is 1, THREADS by CLEVEL, and CLEVEL by the waiting decision that ends the
\* readapt; the state never moves back; a soft readapt is in CLEVEL until its waiting
\* decision; the state is never SHUFFLE_SIZE or MEMCPY
C27_PhasesMoveForward ==
    [][/\ btune'.state \in {"CODEC_FILTER", "THREADS", "CLEVEL", "WAITING", "STOP"}
       /\ (InReadapt(btune, "HARD") /\ btune.state = "CODEC_FILTER") =>
            /\ btune'.readapt_from = "HARD" /\ btune'.nhards = btune.nhards
            /\ \/ btune'.state = "CODEC_FILTER"
               \/ btune'.state = "THREADS" /\ btune.max_threads # 1
               \/ btune'.state = "CLEVEL" /\ btune.max_threads = 1
       /\ (InReadapt(btune, "HARD") /\ btune.state = "THREADS") =>
            /\ btune.max_threads # 1
            /\ btune'.readapt_from = "HARD" /\ btune'.nhards = btune.nhards
            /\ btune'.state \in {"THREADS", "CLEVEL"}
       /\ (InReadapt(btune, "HARD") /\ btune.state = "CLEVEL") =>
            \/ /\ btune'.state = "CLEVEL"
               /\ btune'.readapt_from = "HARD" /\ btune'.nhards = btune.nhards
            \/ btune'.nhards = btune.nhards + 1
       /\ (btune.readapt_from = "SOFT" /\ btune.state # "STOP") =>
            /\ btune.state = "CLEVEL"
            /\ \/ /\ btune'.state = "CLEVEL"
                  /\ btune'.readapt_from = "SOFT" /\ btune'.nsofts = btune.nsofts
               \/ btune'.nsofts = btune.nsofts + 1
      ]_vars

\* with one thread a second hard readapt has gone from CODEC_FILTER straight to CLEVEL
\* after a soft readapt
C27_Witness ==
    /\ phase = "next"
    /\ btune.max_threads = 1
    /\ InReadapt(btune, "HARD")
    /\ btune.state = "CLEVEL"
    /\ btune.nhards = 1
    /\ btune.nsofts = 1
    /\ btune.aux_index = 0

\* the thread count that the THREADS state is tuning
TunedThreads(b, cp) == IF b.threads_for_comp THEN cp.nthreads_comp ELSE cp.nthreads_decomp

\* the next_cparams call that makes the first proposal of a THREADS phase: for the side
\* tuned first, and in BALANCED for the decompression side after the switch
FirstThreadsProposal ==
    /\ phase = "next"
    /\ btune.state = "THREADS"
    /\ btune.aux_index \in {0, MAX_STATE_THREADS}

\* C28: when a THREADS phase begins the direction has been turned away from the limit, so
\* its first proposal has one thread more or one thread less than best
C28_FirstThreadsProposalMovesByOne ==
    [][FirstThreadsProposal =>
         \/ TunedThreads(btune', btune'.aux_cparams) = TunedThreads(btune, btune.best) + 1
         \/ TunedThreads(btune', btune'.aux_cparams) = TunedThreads(btune, btune.best) - 1
      ]_vars

\* an update in the given state that is not an improvement
NonImprovingStep(state) ==
    phase = "update" /\ btune.state = state /\ winner' # "W"

\* the phase goes on: same state, same side of the threads, step counter kept
PhaseContinues ==
    /\ btune'.state = btune.state
    /\ btune'.threads_for_comp = btune.threads_for_comp
    /\ btune'.aux_index = btune.aux_index

\* no level is left step_size away from the level tried last, in the given direction
ClevelExhausted(b, increasing) ==
    IF increasing THEN b.clevel_index + b.step_size >= Len(b.clevels)
    ELSE b.clevel_index - b.step_size < 0

\* the thread count of best is at the end of its range in the given direction
ThreadsExhausted(b, increasing) ==
    IF increasing THEN TunedThreads(b, b.best) = b.max_threads
    ELSE TunedThreads(b, b.best) = MIN_THREADS

\* the first step of a THREADS phase: of the side tuned first, or of the decompression
\* side, which BALANCED mode starts at MAX_STATE_THREADS
FirstThreadsStep(b) ==
    \/ b.aux_index = 1
    \/ /\ b.config.perf_mode = "BALANCED"
       /\ ~b.threads_for_comp
       /\ b.aux_index = MAX_STATE_THREADS + 1

\* C29: in CLEVEL and in THREADS a first step that is not an improvement flips the
\* direction flag of the state, and the phase goes on exactly when the range is not
\* exhausted in the new direction; a later step that is not an improvement ends the phase
C29_FirstMissTurnsLaterMissEnds ==
    [][/\ (NonImprovingStep("CLEVEL") /\ btune.aux_index = 1) =>
            /\ PhaseContinues <=> ~ClevelExhausted(btune, ~btune.best.increasing_clevel)
            /\ (PhaseContinues \/ btune'.state \in {"WAITING", "STOP"}) =>
                   btune'.best.increasing_clevel = ~btune.best.increasing_clevel
       /\ (NonImprovingStep("CLEVEL") /\ btune.aux_index > 1) => ~PhaseContinues
       /\ (NonImprovingStep("THREADS") /\ FirstThreadsStep(btune)) =>
            /\ PhaseContinues <=> ~ThreadsExhausted(btune, ~btune.best.increasing_nthreads)
            /\ (btune'.threads_for_comp = btune.threads_for_comp) =>
                   btune'.best.increasing_nthreads = ~btune.best.increasing_nthreads
       /\ (NonImprovingStep("THREADS") /\ ~FirstThreadsStep(btune)) => ~PhaseContinues
      ]_vars

\* the least and the greatest level of clevels[]
MinClevel(b) == b.clevels[1]
MaxClevel(b) == b.clevels[Len(b.clevels)]

\* the level one step away from best in the direction of its flag, and best's own level
\* when that step would leave the range of clevels[]
ClevelNextToBest(b) ==
    IF b.best.increasing_clevel
    THEN IF b.best.clevel + b.step_size <= MaxClevel(b)
         THEN b.best.clevel + b.step_size ELSE b.best.clevel
    ELSE IF b.best.clevel - b.step_size >= MinClevel(b)
         THEN b.best.clevel - b.step_size ELSE b.best.clevel

\* C30: a proposal made in CLEVEL state gives the context the level step_size away from
\* best.clevel in the direction of increasing_clevel, or best.clevel when the range ends
\* before it
C30_ClevelProposalNextToBest ==
    [][(phase = "next" /\ btune.state = "CLEVEL") =>
           cctx'.clevel = ClevelNextToBest(btune)]_vars

\* the update that completes a hard readapt
HardCompletes ==
    /\ phase = "update"
    /\ btune.readapt_from = "HARD"
    /\ btune'.nhards = btune.nhards + 1

\* the phase a tuner is in: a soft readapt, a hard readapt, waiting or stopped
PhaseOf(b) ==
    CASE b.state = "STOP" -> "STOP"
      [] b.state = "WAITING" -> "WAIT"
      [] b.readapt_from = "SOFT" -> "SOFT"
      [] b.readapt_from = "HARD" -> "HARD"
      [] OTHER -> "NONE"

\* the transition table for the end of a hard readapt: nhards is the number of hard
\* readapts completed, last whether it is a multiple of nhards_before_stop, available
\* whether the caller configured hard readapts to repeat
AfterHardTable(bh, last, available) ==
    IF ~last
    THEN IF bh.nsofts_before_hard > 0 THEN "SOFT"
         ELSE IF bh.nwaits_before_readapt > 0 THEN "WAIT"
         ELSE "HARD"
    ELSE CASE bh.repeat_mode = "REPEAT_ALL" ->
                 IF bh.nsofts_before_hard > 0 THEN "SOFT"
                 ELSE IF bh.nwaits_before_readapt > 0 THEN "WAIT"
                 ELSE IF available THEN "HARD"
                 ELSE "STOP"
           [] bh.repeat_mode = "REPEAT_SOFT" ->
                 IF bh.nsofts_before_hard > 0 THEN "SOFT" ELSE "STOP"
           [] OTHER -> "STOP"

\* C31: when a hard readapt completes, the phase that follows is the one of the
\* transition table
C31_AfterHardFollowsTable ==
    [][HardCompletes =>
         PhaseOf(btune') =
             AfterHardTable(btune.config.behaviour,
                            btune'.nhards % btune.config.behaviour.nhards_before_stop = 0,
                            user.behaviour.nhards_before_stop > 0)
      ]_vars

\* a last hard readapt has completed under REPEAT_ALL without softs and waits, and
\* another hard readapt has started
C31_Witness ==
    /\ phase = "next"
    /\ btune.config.behaviour.repeat_mode = "REPEAT_ALL"
    /\ btune.config.behaviour.nsofts_before_hard = 0
    /\ btune.config.behaviour.nwaits_before_readapt = 0
    /\ btune.is_repeating
    /\ btune.nhards = 2
    /\ PhaseOf(btune) = "HARD"
    /\ btune.state = "CODEC_FILTER"

\* a hard readapt starts, other than the one btune_init starts
HardStarts == btune.state # "CODEC_FILTER" /\ btune'.state = "CODEC_FILTER"

\* the update that completes a soft readapt
SoftCompletes ==
    /\ phase = "update"
    /\ btune.readapt_from = "SOFT"
    /\ btune'.nsofts = btune.nsofts + 1

\* the hard readapts started so far in the initial pass when one more starts: with a hint
\* the pass begins with the soft readapts
SoftRounds(b) == IF b.config.cparams_hint THEN b.nhards + 1 ELSE b.nhards

\* C32: during the initial readapts no soft readapt completes within a hard readapt, and
\* when the next hard readapt starts nsofts_before_hard soft readapts have completed for
\* each round so far, that is nsofts_before_hard since the last hard readapt ended; without
\* waits the hard readapt starts in the update that completes the last of them
C32_SoftsBetweenHards ==
    [][/\ (HardStarts /\ ~btune'.is_repeating) =>
            btune'.nsofts = btune.config.behaviour.nsofts_before_hard * SoftRounds(btune')
       /\ (btune.readapt_from = "HARD" /\ btune.state # "STOP") =>
            btune'.nsofts = btune.nsofts
       /\ (SoftCompletes /\ ~btune.is_repeating
             /\ btune.config.behaviour.nwaits_before_readapt = 0) =>
            (PhaseOf(btune') = "HARD"
                <=> btune'.nsofts % btune.config.behaviour.nsofts_before_hard = 0)
       /\ (SoftCompletes /\ ~btune.is_repeating
             /\ btune.config.behaviour.nwaits_before_readapt > 0) =>
            PhaseOf(btune') = "WAIT"
      ]_vars

\* the second hard readapt of an initial pass starts after two soft readapts
C32_Witness ==
    /\ phase = "next"
    /\ btune.state = "CODEC_FILTER"
    /\ btune.aux_index = 0
    /\ ~btune.is_repeating
    /\ btune.config.behaviour.nsofts_before_hard = 2
    /\ btune.nhards = 1
    /\ btune.nsofts = 2

\* the caller gave its parameters as a hint and asked for soft readapts only, then STOP
HintSoftsThenStop ==
    /\ user.cparams_hint
    /\ user.behaviour.nhards_before_stop = 0
    /\ user.behaviour.repeat_mode = "STOP"
    /\ user.behaviour.nsofts_before_hard > 0

\* C33: with a hint, no hard readapts, repeat_mode STOP and soft readapts configured, the
\* update that completes the last soft readapt of the cycle leaves the state STOP,
\* whatever nwaits_before_readapt is
C33_StopAfterLastSoft ==
    [][(HintSoftsThenStop /\ SoftCompletes
          /\ btune'.nsofts % user.behaviour.nsofts_before_hard = 0) =>
           btune'.state = "STOP"]_vars

\* a hard readapt is running whose completion makes nhards a multiple of
\* nhards_before_stop
LastHardRunning(b) ==
    /\ InReadapt(b, "HARD")
    /\ (b.nhards + 1) % b.config.behaviour.nhards_before_stop = 0

\* C34: during every last hard readapt, of the initial pass and of every repeated pass,
\* step_size is SOFT_STEP_SIZE
C34_LastHardUsesSoftStep ==
    LastHardRunning(btune) => btune.step_size = SOFT_STEP_SIZE

\* a soft readapt is running
SoftRunning(b) == b.readapt_from = "SOFT" /\ b.state = "CLEVEL"

\* C35: whenever a soft readapt is running, the one started by btune_init with a hint
\* included, step_size is SOFT_STEP_SIZE
C35_SoftReadaptUsesSoftStep ==
    SoftRunning(btune) => btune.step_size = SOFT_STEP_SIZE

\* the tuple recorded in aux_cparams is the one the compression context holds
RecordedIsInstalled(b, c) ==
    /\ b.aux_cparams.clevel = c.clevel
    /\ b.aux_cparams.compcode = c.compcode
    /\ b.aux_cparams.filter = c.filter
    /\ b.aux_cparams.splitmode = c.splitmode
    /\ b.aux_cparams.nthreads_comp = c.new_nthreads

\* C36: after every btune_next_cparams the parameters stored in aux_cparams are the ones
\* written into the compression context for that chunk
C36_RecordedParamsAreInstalled ==
    [][(phase = "next" /\ phase' = "update") => RecordedIsInstalled(btune', cctx')]_vars

\* the divisors of the modulo operations that btune_update, and process_waiting_state when
\* the running readapt ends, evaluate in a state; || and && evaluate left to right
ModuloDivisors(b) ==
    LET bh == b.config.behaviour
        in_update ==
            IF b.state = "WAITING" /\ bh.nwaits_before_readapt # 0
            THEN {bh.nwaits_before_readapt} ELSE {}
        hard_case ==
            IF bh.nhards_before_stop = minimum_hards(b) THEN {} ELSE {bh.nhards_before_stop}
        last_soft ==
            bh.nsofts_before_hard = 0 \/ (b.nsofts + 1) % bh.nsofts_before_hard = 0
        starts_hard ==
            /\ last_soft
            /\ ~(b.is_repeating /\ bh.repeat_mode # "REPEAT_ALL")
            /\ bh.nhards_before_stop > minimum_hards(b)
        soft_case ==
            IF bh.nwaits_before_readapt # 0 THEN {}
            ELSE (IF bh.nsofts_before_hard = 0 THEN {} ELSE {bh.nsofts_before_hard})
                 \cup
                 (IF ~starts_hard /\ minimum_hards(b) = 0 /\ bh.nhards_before_stop = 0
                  THEN {bh.nsofts_before_hard} ELSE {})
        wait_case ==
            (IF bh.nwaits_before_readapt # 0 /\ b.nwaitings # 0
             THEN {bh.nwaits_before_readapt} ELSE {})
            \cup
            (IF /\ bh.nwaits_before_readapt = 0
                   \/ (b.nwaitings # 0 /\ b.nwaitings % bh.nwaits_before_readapt = 0)
                /\ bh.nsofts_before_hard # 0
                /\ b.nsofts # 0
             THEN {bh.nsofts_before_hard} ELSE {})
    IN  in_update \cup
        (CASE b.readapt_from = "HARD" -> hard_case
           [] b.readapt_from = "SOFT" -> soft_case
           [] OTHER -> wait_case)

RefersToReleased(p) == p \in {TunerStruct, TunerStructConfig} /\ phase = "freed"

\* the pointers that btune_init installed
InstalledPointers(c) ==
    {c.tuner_params, c.schunk.tuner_params, c.schunk.storage.cparams.tuner_params}

\* C38: after btune_free every pointer that btune_init installed is null or no longer
\* refers to the released struct
C38_NoPointerIntoFreedTuner ==
    phase = "freed" => \A p \in InstalledPointers(cctx) : ~RefersToReleased(p)

\* the index btune_next_cparams reads codecs[] with in CODEC_FILTER
CodecIndex(b) == b.aux_index \div (2 * Len(b.filters))

\* C39: every array access of the search stays in bounds: 0 <= clevel_index < nclevels,
\* and in CODEC_FILTER the codec index is < ncodecs with ncodecs >= 1, also after a
\* prediction re-seeded the lists and when a configured codec is not in the build
C39_ArrayAccessesInBounds ==
    phase # "freed" =>
        /\ btune.clevel_index \in 0..(Len(btune.clevels) - 1)
        /\ (phase = "next" /\ btune.state = "CODEC_FILTER") =>
              /\ Len(btune.codecs) >= 1
              /\ Len(btune.filters) >= 1
              /\ CodecIndex(btune) < Len(btune.codecs)

\* repeat_mode is REPEAT_SOFT and the initial readapts are completed
RepeatingSofts(b) == b.config.behaviour.repeat_mode = "REPEAT_SOFT" /\ b.is_repeating

\* what only a hard readapt tunes
HardTuned(cp) ==
    <<cp.compcode, cp.filter, cp.splitmode, cp.nthreads_comp, cp.nthreads_decomp>>

\* C40: with REPEAT_SOFT, once the initial readapts are completed no hard readapt is
\* started again: the state is never CODEC_FILTER or THREADS and the codec, filter,
\* splitmode and thread counts of best no longer change
C40_RepeatSoftNeverHardAgain ==
    [][(RepeatingSofts(btune) /\ phase # "freed" /\ phase' # "freed") =>
          /\ btune'.state \notin {"CODEC_FILTER", "THREADS"}
          /\ HardTuned(btune'.best) = HardTuned(btune.best)]_vars

\* a soft readapt of the repetition found a better clevel
C40_Witness ==
    /\ RepeatingSofts(btune)
    /\ phase = "next"
    /\ btune.nhards > 0
    /\ btune.nsofts > 1
    /\ btune.best.clevel # best_before.clevel

====
